---- MODULE Spec2Model ----
(***************************************************************************)
(* A model of the tasknotes bulk engines and of the Bases query watcher.   *)
(*                                                                         *)
(*   part 1  BasesQueryWatcher (src/src/notifications/BasesQueryWatcher.ts)*)
(*   part 2  DuplicateDetector, BulkTaskEngine, BulkConvertEngine          *)
(*                                                                         *)
(* The watcher runs on one cooperative event loop: every handler is one    *)
(* atomic action up to its next await, and every await is a point where    *)
(* any other handler may run.                                              *)
(*                                                                         *)
(* Time is counted in ticks of 500 ms and kept relative to Date.now(): a   *)
(* timestamp field holds how many ticks it lies in the future, 0 when it   *)
(* is now or in the past.  `snoozedUntil > Date.now()` is `snoozedUntil >  *)
(* 0` here and `Date.now() + d` is `d`; Tick moves every timestamp.        *)
(*                                                                         *)
(* Objects are modelled by what can still reach the registry.  The         *)
(* registry maps a path to the fields of its MonitoredBase object.  An     *)
(* evaluation pass suspended at its await holds a reference `monitored`:   *)
(* `obj` names the registry key whose object it still is ("-" once the     *)
(* registry holds another object or none), `set` names the registry key    *)
(* whose object has the same Set in cachedPaths ("-" when the Set is no    *)
(* longer shared with the registry), and `id` tells apart the objects the  *)
(* registry dropped while their Set is still shared (0 otherwise).  A      *)
(* write through a reference with obj = "-" changes an object nobody else  *)
(* reads.                                                                  *)
(***************************************************************************)
EXTENDS Integers, Sequences, FiniteSets, Bags, TLC

\* ------------------------------------------------------------------ bounds

\* asynchronous calls (scans, registration checks, evaluation passes) in flight
MaxProcs == 2
\* longest snooze, in ticks
MaxSnooze == 2
\* change events in one observed burst
MaxEvents == 3
\* items of a batch
MaxItems == 2
\* batch calls in a session
MaxRuns == 2
\* pieces a path or a link target is made of
MaxPieces == 3
\* entries of a task's projects
MaxLinks == 2
\* task records the duplicate check finds
MaxTasks == 2

\* EVALUATION_DEBOUNCE_MS = 1000, in ticks of 500 ms
DebounceTicks == 2

\* ------------------------------------------------------------------ values

BasePaths == {"q1.base", "q2.base"}
NotePaths == {"n1.md", "n2.md"}

\* what vault.read and parseBaseConfig make of a definition file
DefKinds == {"absent", "broken", "quiet", "notify"}

None == [kind |-> "none"]

\* no registry entry
Absent == [kind |-> "absent"]

\* no call returned a value in the step
NoAnswer == [fn |-> "none"]

\* a reference to no object
NoRef == [path |-> "", obj |-> "-", set |-> "-", id |-> 0]

Min(S) == CHOOSE x \in S : \A y \in S : x <= y

\* the orders in which the members of S can be visited
Orders(S) == {q \in [1 .. Cardinality(S) -> S] : \A i, j \in 1 .. Cardinality(S) : q[i] = q[j] => i = j}

\* ------------------------------------------------------------------ state

VARIABLES
    baseDef,             \* the vault: what each definition file holds
    initialized,         \* BasesQueryWatcher.initialized
    scanTimeout,         \* the startup timer: "none", "armed", "fired"
    evaluationDebounceTimer, \* None, or the handle of a debounce timer: the ticks until it fires
    timeouts,            \* the host: the bag of the debounce timers that are armed
    periodicScan,        \* TRUE when a setInterval of startPeriodicScan exists
    listeners,           \* TRUE when the four event listeners are subscribed
    monitoredBases,      \* the registry: definition path -> MonitoredBase, or Absent
    pendingEvaluations,  \* Set of definition paths (iterated in any order)
    procs,               \* the bag of asynchronous calls suspended at an await
    destroyed,           \* history: destroy() has returned and initialize() was not called since
    dispatched,          \* output of the last step: the notification it opened, or None
    evaluated,           \* output of the last step: the evaluation it completed, or None
    burst,               \* history: the change events so far and the passes they started
    tasks,               \* the task records, in the order of their creation
    docs,                \* the vault: the frontmatter of each document, or Missing
    settings,            \* the plugin settings
    call,                \* the batch call that is running, or Idle
    calls,               \* history: the batch calls that ended, with how they ended
    mutated,             \* output of the last step: the frontmatter mutation it applied, or None
    fault,               \* input of the last step: the failure the item met, or None
    answer               \* output of the last step: the call that returned a value, or None

wvars == <<baseDef, initialized, scanTimeout, evaluationDebounceTimer, timeouts, periodicScan,
           listeners, monitoredBases, pendingEvaluations, procs, destroyed,
           dispatched, evaluated>>

vars == <<wvars, burst, tasks, docs, settings, call, calls, mutated, fault, answer>>

\* ------------------------------------------------------------------ suspended calls

NoProc == [kind |-> "ended"]

\* the bag of suspended calls with one more call (NoProc: the call ended without an await)
Started(ps, r) == IF r = NoProc THEN ps ELSE ps (+) SetToBag({r})

\* ... and with call `old` replaced by what it became
Replaced(ps, old, r) == Started(ps (-) SetToBag({old}), r)

\* the model starts no further asynchronous call while MaxProcs are suspended
CanStart == BagCardinality(procs) < MaxProcs

RECURSIVE Copies(_, _)
Copies(S, ps) == IF S = {} THEN 0
                 ELSE LET r == CHOOSE x \in S : TRUE IN ps[r] + Copies(S \ {r}, ps)

\* the references the suspended calls hold
Refs(ps) == {r.monitored : r \in BagToSet(ps)}

\* every suspended call's reference `monitored` replaced by f[monitored]
MapRefs(ps, f) ==
    LET G(r) == [r EXCEPT !.monitored = f[@]]
        S == BagToSet(ps)
    IN  [x \in {G(r) : r \in S} |-> Copies({r \in S : G(r) = x}, ps)]

FreshId(ps) == Min((1 .. MaxProcs + 1) \ {ref.id : ref \in Refs(ps)})

\* a reference to an object that shares nothing with the registry carries no id
Norm(ref) == IF ref.obj = "-" /\ ref.set = "-" THEN [ref EXCEPT !.id = 0] ELSE ref

\* The registry stopped holding the object under key k.  keepSet: another
\* object took its place, with the same Set in cachedPaths.
Detach(ps, k, keepSet) ==
    LET id == FreshId(ps)
    IN  MapRefs(ps, [ref \in Refs(ps) |->
            Norm([ref EXCEPT !.obj = IF @ = k THEN "-" ELSE @,
                             !.id = IF ref.obj = k THEN id ELSE @,
                             !.set = IF @ = k /\ ~keepSet THEN "-" ELSE @])])

RECURSIVE DetachAll(_, _)
DetachAll(ps, K) ==
    IF K = {} THEN ps
    ELSE LET k == CHOOSE x \in K : TRUE IN DetachAll(Detach(ps, k, FALSE), K \ {k})

\* the object a reference points at got a new Set in cachedPaths: the
\* references to other objects that shared the old Set through key k keep the old Set
Unshare(ps, monitored) ==
    MapRefs(ps, [ref \in Refs(ps) |->
        IF monitored.obj # "-"
        THEN IF ref.obj # monitored.obj /\ ref.set = monitored.obj
             THEN Norm([ref EXCEPT !.set = "-"]) ELSE ref
        ELSE IF ref.obj = "-" /\ ref.id = monitored.id
             THEN Norm([ref EXCEPT !.set = "-"]) ELSE ref])

\* the object under key k was moved to key n and its path set to n
Move(ps, k, n) ==
    LET ds == Detach(ps, n, FALSE)
    IN  MapRefs(ds, [ref \in Refs(ds) |->
            [ref EXCEPT !.path = IF ref.obj = k THEN n ELSE @,
                        !.obj = IF @ = k THEN n ELSE @,
                        !.set = IF @ = k THEN n ELSE @]])

\* the registry and the suspended calls, as one value
Heap(mb, ps) == [mb |-> mb, ps |-> ps]

\* ------------------------------------------------------------------ registration

MonitoredBase(path, snoozedUntil, lastResultCount, cachedPaths) ==
    [path |-> path, snoozedUntil |-> snoozedUntil, lastResultCount |-> lastResultCount,
     cachedPaths |-> cachedPaths]

\* checkAndRegisterBase, notify branch, with an entry that starts from nothing
RegisterBase_fresh(mb, ps, file) ==
    Heap([mb EXCEPT ![file] = MonitoredBase(file, 0, 0, {})], Detach(ps, file, FALSE))

\* checkAndRegisterBase, notify branch: a NEW object that takes over the
\* existing entry's snoozedUntil, lastResultCount and cachedPaths Set
RegisterBase(mb, ps, file) ==
    LET existing == mb[file]
    IN  IF existing # Absent
        THEN Heap([mb EXCEPT ![file] = MonitoredBase(file, existing.snoozedUntil,
                                                     existing.lastResultCount,
                                                     existing.cachedPaths)],
                  Detach(ps, file, TRUE))
        ELSE Heap([mb EXCEPT ![file] = MonitoredBase(file, 0, 0, {})], ps)

\* monitoredBases.delete(file)
DeleteBase(mb, ps, file) ==
    Heap([mb EXCEPT ![file] = Absent], Detach(ps, file, FALSE))

\* parseBaseConfig: only a definition that parses and has notify: true has config.notify
ParseNotify(content) == content = "notify"

\* checkAndRegisterBase with a parseBaseConfig that lets the parse error out: the
\* catch of checkAndRegisterBase takes it and the registry stays as it is
CheckAndRegisterBase_parseThrows(mb, ps, file, content) ==
    IF content \in {"absent", "broken"} THEN Heap(mb, ps)
    ELSE IF content = "notify" THEN RegisterBase(mb, ps, file)
    ELSE DeleteBase(mb, ps, file)

\* checkAndRegisterBase once vault.read has returned `content` ("absent": the read throws)
CheckAndRegisterBase(mb, ps, file, content) ==
    IF content = "absent" THEN Heap(mb, ps)
    ELSE IF ParseNotify(content) THEN RegisterBase(mb, ps, file)
    ELSE DeleteBase(mb, ps, file)

\* ------------------------------------------------------------------ evaluation passes

\* the loop of evaluatePendingBases up to its next await: entries that are no
\* longer registered or are snoozed are skipped
RECURSIVE NextEval(_, _)
NextEval(todo, mb) ==
    IF todo = << >> THEN << >>
    ELSE IF mb[Head(todo)] = Absent THEN NextEval(Tail(todo), mb)
    ELSE IF mb[Head(todo)].snoozedUntil > 0 THEN NextEval(Tail(todo), mb)
    ELSE todo

\* the pass suspended at `await this.evaluateBaseQuery(basePath)`, holding `monitored`
PassProc(todo) ==
    IF todo = << >> THEN NoProc
    ELSE [kind |-> "pass", todo |-> todo,
          monitored |-> [path |-> Head(todo), obj |-> Head(todo), set |-> Head(todo), id |-> 0],
          then |-> "none", seen |-> baseDef[Head(todo)]]

\* How `await this.evaluateBaseQuery(basePath)` can end.  "null": no file, no
\* source filter, or (failed) a read or evaluation error that
\* evaluateWithTemporaryView caught.  "items": the items of a live view or of the
\* folder scan, or (failed) the items extractResultsFromView had collected when
\* it caught an error.  "throws": the call rejects.
EvalOutcomes(seen) ==
    IF seen = "absent" THEN {[kind |-> "null", failed |-> FALSE, paths |-> {}]}
    ELSE {[kind |-> "null", failed |-> f, paths |-> {}] : f \in BOOLEAN}
         \cup {[kind |-> "items", failed |-> f, paths |-> P] : f \in BOOLEAN, P \in SUBSET NotePaths}
         \cup {[kind |-> "throws", failed |-> TRUE, paths |-> {}]}

\* the body of the try block of evaluatePendingBases after the await, through
\* the reference the pass holds
ApplyResults(mb, ps, monitored, out) ==
    IF out.kind = "throws"
    THEN \* catch (error): console.error
         Heap(mb, ps)
    ELSE IF out.paths # {}
    THEN \* monitored.cachedPaths = new Set(...); monitored.lastResultCount = results.length
         Heap(IF monitored.obj # "-"
              THEN [mb EXCEPT ![monitored.obj].cachedPaths = out.paths,
                              ![monitored.obj].lastResultCount = Cardinality(out.paths)]
              ELSE mb,
              Unshare(ps, monitored))
    ELSE \* monitored.cachedPaths.clear(); monitored.lastResultCount = 0
         LET mb1 == IF monitored.set # "-"
                    THEN [mb EXCEPT ![monitored.set].cachedPaths = {}] ELSE mb
         IN  Heap(IF monitored.obj # "-"
                  THEN [mb1 EXCEPT ![monitored.obj].lastResultCount = 0] ELSE mb1,
                  ps)

\* showNotification
Notification(path, items) == [kind |-> "notification", path |-> path, items |-> items]

\* ------------------------------------------------------------------ actions

lifeVars == <<initialized, scanTimeout, periodicScan, listeners, destroyed>>
heapVars == <<monitoredBases, procs>>

\* no notification and no evaluation result comes out of this step
Quiet == dispatched' = None /\ evaluated' = None

Commit(h) == monitoredBases' = h.mb /\ procs' = h.ps

\* the suspended calls other than call r
Others(r) == procs (-) SetToBag({r})

\* `if (this.evaluationDebounceTimer) clearTimeout(this.evaluationDebounceTimer)`
\* without the call: the timer stays armed in the host
ClearTimeout_none(host, timer) == host

\* `if (this.evaluationDebounceTimer) clearTimeout(this.evaluationDebounceTimer)`
ClearTimeout(host, timer) ==
    IF timer = None THEN host ELSE host (-) SetToBag({timer})

\* scheduleEvaluation keeps a handle, and no timer is armed in the host
SetTimeout_notArmed(host, timer) == host

\* window.setTimeout(..., EVALUATION_DEBOUNCE_MS), `timer` being the handle it returns
SetTimeout(host, timer) == host (+) SetToBag({timer})

\* one tick passes for every armed timer
Elapse(host) ==
    LET G(t) == [t EXCEPT !.in = @ - 1]
        S == BagToSet(host)
    IN  [x \in {G(t) : t \in S} |-> Copies({t \in S : G(t) = x}, host)]

\* initialize()
Initialize ==
    /\ ~initialized
    /\ initialized' = TRUE
    /\ scanTimeout' = "armed"
    /\ destroyed' = FALSE
    /\ Quiet
    /\ UNCHANGED <<baseDef, evaluationDebounceTimer, timeouts, periodicScan, listeners,
                   heapVars, pendingEvaluations>>

\* destroy(): the interval of startPeriodicScan is not kept, so it is not cleared;
\* calls suspended at an await go on afterwards
Destroy ==
    /\ scanTimeout' = "none"
    /\ evaluationDebounceTimer' = None
    /\ timeouts' = ClearTimeout(timeouts, evaluationDebounceTimer)
    /\ listeners' = FALSE
    /\ Commit(Heap([b \in BasePaths |-> Absent], DetachAll(procs, BasePaths)))
    /\ pendingEvaluations' = {}
    /\ initialized' = FALSE
    /\ destroyed' = TRUE
    /\ Quiet
    /\ UNCHANGED <<baseDef, periodicScan>>

\* evaluatePendingBases taking only the first pending entry into its pass and
\* clearing the set all the same
EvaluatePendingBases_firstOnly(pend, h) ==
    IF pend = {}
    THEN /\ pendingEvaluations' = pend
         /\ Commit(h)
    ELSE \E order \in Orders(pend) :
            /\ pendingEvaluations' = {}
            /\ Commit(Heap(h.mb, Started(h.ps, PassProc(NextEval(<<Head(order)>>, h.mb)))))

\* evaluatePendingBases from its start to its first await; h.ps are the other
\* suspended calls
EvaluatePendingBases(pend, h) ==
    IF pend = {}
    THEN /\ pendingEvaluations' = pend
         /\ Commit(h)
    ELSE \E order \in Orders(pend) :
            /\ pendingEvaluations' = {}
            /\ Commit(Heap(h.mb, Started(h.ps, PassProc(NextEval(order, h.mb)))))

\* The end of a scan, by what started it; h.ps are the other suspended calls.
\*   "event":    checkAndRegisterBase called by the metadata listener (nothing follows)
\*   "startup":  the callback of initialize(): setupEventListeners, startPeriodicScan
\*   "periodic": the callback of startPeriodicScan: mark every non-snoozed
\*               base pending, then evaluatePendingBases if any is pending
AfterScan(then, h) ==
    CASE then = "startup" ->
           /\ listeners' = TRUE
           /\ periodicScan' = TRUE
           /\ Commit(h)
           /\ UNCHANGED pendingEvaluations
      [] then = "periodic" ->
           /\ UNCHANGED <<listeners, periodicScan>>
           /\ EvaluatePendingBases(
                  pendingEvaluations \cup
                  {b \in BasePaths : h.mb[b] # Absent /\ h.mb[b].snoozedUntil <= 0}, h)
      [] OTHER ->
           /\ Commit(h)
           /\ UNCHANGED <<listeners, periodicScan, pendingEvaluations>>

\* a scan (or one registration check) suspended at `await vault.read(file)` of its first file
ScanProc(files, then) ==
    [kind |-> "scan", todo |-> files, monitored |-> NoRef, then |-> then,
     seen |-> baseDef[Head(files)]]

\* vault.getFiles() filtered to the definitions
BaseFiles == {b \in BasePaths : baseDef[b] # "absent"}

\* scanForMonitoredBases up to its first read (the files come in any order)
StartScan(then) ==
    \E files \in Orders(BaseFiles) :
        IF files = << >>
        THEN AfterScan(then, Heap(monitoredBases, procs))
        ELSE /\ Commit(Heap(monitoredBases, Started(procs, ScanProc(files, then))))
             /\ UNCHANGED <<listeners, periodicScan, pendingEvaluations>>

\* the startup timer of initialize() fires
StartupFire ==
    /\ scanTimeout = "armed"
    /\ CanStart
    /\ scanTimeout' = "fired"
    /\ StartScan("startup")
    /\ Quiet
    /\ UNCHANGED <<baseDef, initialized, evaluationDebounceTimer, timeouts, destroyed>>

\* the interval of startPeriodicScan fires
PeriodicFire ==
    /\ periodicScan
    /\ CanStart
    /\ StartScan("periodic")
    /\ Quiet
    /\ UNCHANGED <<baseDef, initialized, scanTimeout, evaluationDebounceTimer, timeouts, destroyed>>

\* a read of checkAndRegisterBase returns: the content is the file's when the
\* read was issued or when it returns; the scan goes on to its next file or ends
ScanStep(r) ==
    /\ r.kind = "scan"
    /\ \E content \in {r.seen, baseDef[Head(r.todo)]} :
          LET h == CheckAndRegisterBase(monitoredBases, Others(r), Head(r.todo), content)
          IN  IF Tail(r.todo) = << >>
              THEN AfterScan(r.then, h)
              ELSE /\ Commit(Heap(h.mb, Started(h.ps, ScanProc(Tail(r.todo), r.then))))
                   /\ UNCHANGED <<listeners, periodicScan, pendingEvaluations>>
    /\ Quiet
    /\ UNCHANGED <<baseDef, initialized, scanTimeout, evaluationDebounceTimer, timeouts, destroyed>>

\* scheduleEvaluation without the clearTimeout: an armed timer keeps its deadline
ScheduleEvaluation_keepsDeadline(timer) ==
    IF timer # None THEN timer ELSE [kind |-> "timer", in |-> DebounceTicks]

\* scheduleEvaluation: the armed timer, if any, is cleared and a new one is armed
ScheduleEvaluation(timer) == [kind |-> "timer", in |-> DebounceTicks]

\* handlePathChange without its first loop: only the bases that are not snoozed
Marked_notSnoozed(changedPath) ==
    {b \in BasePaths : /\ monitoredBases[b] # Absent
                       /\ monitoredBases[b].snoozedUntil <= 0}

\* the bases handlePathChange marks: those whose cached results hold the path,
\* and every base that is not snoozed
Marked(changedPath) ==
    {b \in BasePaths : /\ monitoredBases[b] # Absent
                       /\ \/ changedPath \in monitoredBases[b].cachedPaths
                          \/ monitoredBases[b].snoozedUntil <= 0}

\* handlePathChange(changedPath)
HandlePathChange(changedPath) ==
    /\ pendingEvaluations' = pendingEvaluations \cup Marked(changedPath)
    /\ evaluationDebounceTimer' = ScheduleEvaluation(evaluationDebounceTimer)
    /\ timeouts' = SetTimeout(ClearTimeout(timeouts, evaluationDebounceTimer),
                              evaluationDebounceTimer')
    /\ Quiet
    /\ UNCHANGED <<baseDef, lifeVars, heapVars>>

\* the EVENT_TASK_UPDATED listener
TaskUpdated(path) ==
    /\ listeners
    /\ HandlePathChange(path)

\* the metadataCache "changed" listener, for a note
MetadataChangedNote(path) ==
    /\ listeners
    /\ HandlePathChange(path)

\* the vault "delete" listener, for a file that is not a definition
FileDeletedNote(path) ==
    /\ listeners
    /\ HandlePathChange(path)

\* the vault "rename" listener, for a note: handlePathChange(file.path), then
\* handlePathChange(oldPath); the second call adds its marks and re-arms the timer
FileRenamedNote(path, oldPath) ==
    /\ listeners
    /\ path # oldPath
    /\ pendingEvaluations' = pendingEvaluations \cup Marked(path) \cup Marked(oldPath)
    /\ LET first == ScheduleEvaluation(evaluationDebounceTimer)
           host == SetTimeout(ClearTimeout(timeouts, evaluationDebounceTimer), first)
       IN  /\ evaluationDebounceTimer' = ScheduleEvaluation(first)
           /\ timeouts' = SetTimeout(ClearTimeout(host, first), evaluationDebounceTimer')
    /\ Quiet
    /\ UNCHANGED <<baseDef, lifeVars, heapVars>>

\* the metadataCache "changed" listener, for a definition: checkAndRegisterBase(file),
\* not awaited
MetadataChangedBase(file) ==
    /\ listeners
    /\ baseDef[file] # "absent"
    /\ CanStart
    /\ Commit(Heap(monitoredBases, Started(procs, ScanProc(<<file>>, "event"))))
    /\ Quiet
    /\ UNCHANGED <<baseDef, lifeVars, evaluationDebounceTimer, timeouts, pendingEvaluations>>

\* a definition file is deleted; the vault "delete" listener drops it from the registry
FileDeletedBase(file) ==
    /\ baseDef[file] # "absent"
    /\ baseDef' = [baseDef EXCEPT ![file] = "absent"]
    /\ IF listeners
       THEN Commit(DeleteBase(monitoredBases, procs, file))
       ELSE UNCHANGED heapVars
    /\ Quiet
    /\ UNCHANGED <<lifeVars, evaluationDebounceTimer, timeouts, pendingEvaluations>>

\* a definition file is renamed; the vault "rename" listener moves the registry's
\* object to the new path
FileRenamedBase(oldPath, file) ==
    /\ baseDef[oldPath] # "absent"
    /\ baseDef[file] = "absent"
    /\ baseDef' = [baseDef EXCEPT ![file] = baseDef[oldPath], ![oldPath] = "absent"]
    /\ IF listeners /\ monitoredBases[oldPath] # Absent
       THEN LET existing == monitoredBases[oldPath]
            IN  Commit(Heap([monitoredBases EXCEPT ![oldPath] = Absent,
                                                   ![file] = [existing EXCEPT !.path = file]],
                            Move(procs, oldPath, file)))
       ELSE UNCHANGED heapVars
    /\ Quiet
    /\ UNCHANGED <<lifeVars, evaluationDebounceTimer, timeouts, pendingEvaluations>>

\* a definition file is created or rewritten in the vault (the "changed" event
\* that follows is MetadataChangedBase)
WriteDefinition(file, content) ==
    /\ content # "absent"
    /\ baseDef[file] # content
    /\ baseDef' = [baseDef EXCEPT ![file] = content]
    /\ Quiet
    /\ UNCHANGED <<lifeVars, heapVars, evaluationDebounceTimer, timeouts, pendingEvaluations>>

\* a definition file is rewritten and the metadataCache "changed" listener calls
\* checkAndRegisterBase(file), not awaited; its read is issued after the write
DefinitionChanged(file, content) ==
    /\ listeners
    /\ baseDef[file] # "absent"
    /\ content # "absent"
    /\ CanStart
    /\ baseDef' = [baseDef EXCEPT ![file] = content]
    /\ Commit(Heap(monitoredBases,
                   Started(procs, [ScanProc(<<file>>, "event") EXCEPT !.seen = content])))
    /\ Quiet
    /\ UNCHANGED <<lifeVars, evaluationDebounceTimer, timeouts, pendingEvaluations>>

\* the debounce timer fires
DebounceFire ==
    /\ \E t \in BagToSet(timeouts) :
          /\ t.in = 0
          /\ timeouts' = timeouts (-) SetToBag({t})
    /\ CanStart
    /\ evaluationDebounceTimer' = None
    /\ EvaluatePendingBases(pendingEvaluations, Heap(monitoredBases, procs))
    /\ Quiet
    /\ UNCHANGED <<baseDef, lifeVars>>

\* triggerEvaluation(basePath)
TriggerEvaluation(basePath) ==
    /\ CanStart
    /\ EvaluatePendingBases(pendingEvaluations \cup {basePath}, Heap(monitoredBases, procs))
    /\ Quiet
    /\ UNCHANGED <<baseDef, lifeVars, evaluationDebounceTimer, timeouts>>

\* evaluateBaseQuery resolves in pass `r`: the results are applied, a
\* notification is shown for a non-empty result, and the pass runs on to its
\* next await or to its end
PassResume(r) ==
    /\ r.kind = "pass"
    /\ \E out \in EvalOutcomes(r.seen) :
          LET h == ApplyResults(monitoredBases, Others(r), r.monitored, out)
          IN  /\ Commit(Heap(h.mb, Started(h.ps, PassProc(NextEval(Tail(r.todo), h.mb)))))
              /\ dispatched' = IF out.paths # {}
                               THEN Notification(r.monitored.path, out.paths)
                               ELSE None
              /\ evaluated' = [kind |-> "evaluation", path |-> Head(r.todo), out |-> out]
    /\ UNCHANGED <<baseDef, lifeVars, evaluationDebounceTimer, timeouts, pendingEvaluations>>

\* snoozeBase(basePath, durationMinutes)
SnoozeBase(basePath, duration) ==
    /\ monitoredBases[basePath] # Absent
    /\ monitoredBases' = [monitoredBases EXCEPT ![basePath].snoozedUntil = duration]
    /\ Quiet
    /\ UNCHANGED <<baseDef, lifeVars, evaluationDebounceTimer, timeouts, pendingEvaluations, procs>>

\* the snooze check of showNotificationFromView left out
IsSnoozed_never(monitored) == FALSE

\* monitored.snoozedUntil > Date.now()
IsSnoozed(monitored) == monitored.snoozedUntil > 0

\* showNotificationFromView(basePath, baseName, items)
ShowNotificationFromView(basePath, items) ==
    /\ LET monitored == IF monitoredBases[basePath] # Absent THEN monitoredBases[basePath]
                        ELSE MonitoredBase(basePath, 0, 0, {})
       IN  IF items = {}
           THEN /\ UNCHANGED heapVars
                /\ dispatched' = None
           ELSE IF IsSnoozed(monitored)
           THEN /\ monitoredBases' = [monitoredBases EXCEPT ![basePath] = monitored]
                /\ UNCHANGED procs
                /\ dispatched' = None
           ELSE /\ Commit(Heap([monitoredBases EXCEPT ![basePath] =
                                   [monitored EXCEPT !.cachedPaths = items,
                                                     !.lastResultCount = Cardinality(items)]],
                               Unshare(procs, [NoRef EXCEPT !.obj = basePath])))
                /\ dispatched' = Notification(monitored.path, items)
    /\ evaluated' = None
    /\ UNCHANGED <<baseDef, lifeVars, evaluationDebounceTimer, timeouts, pendingEvaluations>>

\* one tick passes; a timer fires no later than the tick it is set for
Tick ==
    /\ \A t \in BagToSet(timeouts) : t.in > 0
    /\ timeouts' = Elapse(timeouts)
    /\ evaluationDebounceTimer' =
          IF evaluationDebounceTimer = None THEN None
          ELSE [evaluationDebounceTimer EXCEPT !.in = @ - 1]
    /\ monitoredBases' =
          [b \in BasePaths |->
             IF monitoredBases[b] = Absent THEN Absent
             ELSE [monitoredBases[b] EXCEPT !.snoozedUntil = IF @ > 0 THEN @ - 1 ELSE 0]]
    /\ Quiet
    /\ UNCHANGED <<baseDef, lifeVars, pendingEvaluations, procs>>

\* ------------------------------------------------------------------ strings

\* A string is the sequence of its characters.

\* String.prototype.toLowerCase, on the letters the model uses
LowerCase == ("N" :> "n") @@ ("M" :> "m") @@ ("D" :> "d")

ToLowerCase(s) == [i \in 1 .. Len(s) |-> IF s[i] \in DOMAIN LowerCase THEN LowerCase[s[i]] ELSE s[i]]

EndsWith(s, suffix) ==
    /\ Len(suffix) <= Len(s)
    /\ SubSeq(s, Len(s) - Len(suffix) + 1, Len(s)) = suffix

\* replace(/\.md$/i, "")
StripMd(s) ==
    IF EndsWith(ToLowerCase(s), <<".", "m", "d">>) THEN SubSeq(s, 1, Len(s) - 3) ELSE s

\* the indices at which character c stands in s
IndicesOf(s, c) == {i \in 1 .. Len(s) : s[i] = c}

Max(S) == CHOOSE x \in S : \A y \in S : x >= y

\* split("/").pop()
PopSegment(s) ==
    IF IndicesOf(s, "/") = {} THEN s ELSE SubSeq(s, Max(IndicesOf(s, "/")) + 1, Len(s))

\* String.prototype.trim
Trim(s) ==
    LET inked == {i \in 1 .. Len(s) : s[i] # " "}
    IN  IF inked = {} THEN << >> ELSE SubSeq(s, Min(inked), Max(inked))

\* ------------------------------------------------------------------ duplicate detector

NoMatch == [matched |-> FALSE, group |-> << >>]

\* link.match(/^\[\[([^\]|]+)(?:\|[^\]]+)?\]\]$/)
WikiMatch(link) ==
    LET inner == SubSeq(link, 3, Len(link) - 2)
        bars == IndicesOf(inner, "|")
    IN  IF \/ Len(link) < 5
           \/ SubSeq(link, 1, 2) # <<"[", "[">>
           \/ SubSeq(link, Len(link) - 1, Len(link)) # <<"]", "]">>
           \/ IndicesOf(inner, "]") # {}
        THEN NoMatch
        ELSE IF bars = {} THEN [matched |-> TRUE, group |-> inner]
        ELSE IF Min(bars) = 1 \/ Min(bars) = Len(inner) THEN NoMatch
        ELSE [matched |-> TRUE, group |-> SubSeq(inner, 1, Min(bars) - 1)]

\* link.match(/^\[.*?\]\(([^)]+)\)$/): the first "](" after which only the
\* group and the closing parenthesis follow
MdMatch(link) ==
    LET ks == {k \in 2 .. Len(link) - 3 :
                  /\ link[k] = "]"
                  /\ link[k + 1] = "("
                  /\ IndicesOf(SubSeq(link, k + 2, Len(link) - 1), ")") = {}}
    IN  IF Len(link) < 5 \/ link[1] # "[" \/ link[Len(link)] # ")" \/ ks = {}
        THEN NoMatch
        ELSE [matched |-> TRUE, group |-> SubSeq(link, Min(ks) + 2, Len(link) - 1)]

ExtractPathFromLink(link) ==
    IF link = << >> THEN << >>
    ELSE IF WikiMatch(link).matched THEN Trim(WikiMatch(link).group)
    ELSE IF MdMatch(link).matched THEN Trim(MdMatch(link).group)
    ELSE Trim(link)

NormalizePath(path) == ToLowerCase(StripMd(path))

\* split("/").pop() || path
Basename(path) == IF PopSegment(path) = << >> THEN path ELSE PopSegment(path)

\* the comparison with the full paths only
ProjectMatches_exact(project, sourcePath) ==
    NormalizePath(ExtractPathFromLink(project)) = NormalizePath(sourcePath)

\* the comparison of taskLinksToSource for one entry of task.projects
ProjectMatches(project, sourcePath) ==
    LET normalizedSource == NormalizePath(sourcePath)
        sourceBasename == Basename(normalizedSource)
        normalizedProject == NormalizePath(ExtractPathFromLink(project))
        projectBasename == Basename(normalizedProject)
    IN  \/ normalizedProject = normalizedSource
        \/ projectBasename = sourceBasename
        \/ EndsWith(normalizedProject, <<"/">> \o sourceBasename)
        \/ EndsWith(normalizedSource, <<"/">> \o projectBasename)

\* a task without the property has no field `projects`
TaskLinksToSource(task, sourcePath) ==
    /\ "projects" \in DOMAIN task
    /\ \E i \in 1 .. Len(task.projects) : ProjectMatches(task.projects[i], sourcePath)

\* checkForDuplicates that looks at the first task only
CheckForDuplicates_firstTask(sourcePaths, allTasks) ==
    {sourcePaths[i] : i \in {j \in 1 .. Len(sourcePaths) :
        allTasks # << >> /\ TaskLinksToSource(allTasks[1], sourcePaths[j])}}

\* checkForDuplicates: existingTaskPaths
CheckForDuplicates(sourcePaths, allTasks) ==
    {sourcePaths[i] : i \in {j \in 1 .. Len(sourcePaths) :
        \E t \in 1 .. Len(allTasks) : TaskLinksToSource(allTasks[t], sourcePaths[j])}}

\* checkForDuplicates: linkedTasks for one source path; the path of a task
\* is its place in allTasks
LinkedTasks(sourcePath, allTasks) ==
    LET Links(t) == TaskLinksToSource(allTasks[t], sourcePath)
    IN  SelectSeq([t \in 1 .. Len(allTasks) |-> t], Links)

\* checkForDuplicates: sourceToTaskMap
SourceToTaskMap(sourcePaths, allTasks) ==
    [p \in CheckForDuplicates(sourcePaths, allTasks) |-> LinkedTasks(p, allTasks)]

\* ------------------------------------------------------------------ documents and tasks

EmptyPath == << >>
\* "N.md"
NotePath == <<"N", ".", "m", "d">>
\* "f/N.md"
FolderNotePath == <<"f", "/", "N", ".", "m", "d">>
\* "q.base"
QueryPath == <<"q", ".", "b", "a", "s", "e">>

DocPaths == {NotePath, FolderNotePath}
ItemPaths == {EmptyPath, NotePath, FolderNotePath}

\* values of a frontmatter field
Undefined == [t |-> "undefined"]
Str(v) == [t |-> "string", v |-> v]
Bool(v) == [t |-> "boolean", v |-> v]
List(v) == [t |-> "array", v |-> v]

IsArray(value) == value.t = "array"

\* Array.prototype.includes
Includes(array, x) == \E i \in 1 .. Len(array) : array[i] = x

FrontKeys == {"isTask", "tags", "status", "priority", "dateCreated", "projects", "dateModified"}

\* no file at the path
Missing == [t |-> "missing"]

EmptyFrontmatter == [k \in FrontKeys |-> Undefined]

\* frontmatter of the documents the model starts from: a note with a tag list
\* and with projects that are one string,
\* a note whose tags are one string, a task by its tag, a task by its property,
\* a note whose property says that it is no task
ListedNote == [EmptyFrontmatter EXCEPT !["tags"] = List(<<"doc">>), !["status"] = Str("done"),
                                       !["projects"] = Str("other"),
                                       !["dateModified"] = Str("old")]
ScalarNote == [EmptyFrontmatter EXCEPT !["tags"] = Str("doc"), !["projects"] = List(<< >>)]
TaggedTask == [EmptyFrontmatter EXCEPT !["tags"] = List(<<"task">>), !["priority"] = Str("high")]
MarkedTask == [EmptyFrontmatter EXCEPT !["isTask"] = Bool(TRUE), !["dateCreated"] = Str("old")]
UnmarkedNote == [EmptyFrontmatter EXCEPT !["isTask"] = Bool(FALSE)]

\* the vaults the model starts from
Vaults ==
    { (NotePath :> EmptyFrontmatter) @@ (FolderNotePath :> Missing),
      (NotePath :> ListedNote) @@ (FolderNotePath :> TaggedTask),
      (NotePath :> ScalarNote) @@ (FolderNotePath :> MarkedTask),
      (NotePath :> Missing) @@ (FolderNotePath :> EmptyFrontmatter),
      (NotePath :> UnmarkedNote) @@ (FolderNotePath :> Missing) }

\* the plugin settings the engines read
Settings ==
    [taskIdentificationMethod : {"property", "tag"},
     taskPropertyName : {"isTask"},
     taskPropertyValue : {"true"},
     taskTag : {"task"},
     linkStyle : {"shortest", "absolute", "markdown"}]

\* no batch call is running
Idle == [engine |-> "none"]

\* app.vault.getAbstractFileByPath(path), as the frontmatter of the file or Missing
FileAt(ds, path) == IF path \in DocPaths THEN ds[path] ELSE Missing

\* app.fileManager.generateMarkdownLink of the host, in the link style the
\* vault is set to
GenerateMarkdownLink(path, style) ==
    CASE style = "shortest" -> <<"[", "[">> \o StripMd(PopSegment(path)) \o <<"]", "]">>
      [] style = "absolute" -> <<"[", "[">> \o StripMd(path) \o <<"]", "]">>
      [] OTHER -> <<"[">> \o StripMd(PopSegment(path)) \o <<"]", "(">> \o path \o <<")">>

\* generateProjectLink
GenerateProjectLink(sourcePath, ds, style) ==
    IF FileAt(ds, sourcePath) # Missing
    THEN GenerateMarkdownLink(sourcePath, style)
    ELSE LET basename == IF StripMd(PopSegment(sourcePath)) = << >> THEN sourcePath
                         ELSE StripMd(PopSegment(sourcePath))
         IN  <<"[", "[">> \o basename \o <<"]", "]">>

\* cacheManager.isTaskFile of the host: the configured property has the
\* configured value, or the tags hold the task tag
CoerceValue(propValue) ==
    IF propValue = "true" THEN Bool(TRUE)
    ELSE IF propValue = "false" THEN Bool(FALSE)
    ELSE Str(propValue)

IsTaskFile(frontmatter, st) ==
    IF st.taskIdentificationMethod = "property"
    THEN frontmatter[st.taskPropertyName] = CoerceValue(st.taskPropertyValue)
    ELSE IsArray(frontmatter["tags"]) /\ Includes(frontmatter["tags"].v, st.taskTag)

NonEmpty(s) == s # << >>

\* items.map((item) => item.path || "").filter(Boolean)
SourcePaths(items) == SelectSeq([i \in 1 .. Len(items) |-> items[i].path], NonEmpty)

\* an error string: its fixed text and the path it names
Message(text, path) == [text |-> text, path |-> path]

\* result.failed++ without the push onto result.errors
RecordFailure_noMessage(result, message) == [result EXCEPT !.failed = @ + 1]

\* result.failed++; result.errors.push(...)
RecordFailure(result, message) ==
    [result EXCEPT !.failed = @ + 1, !.errors = Append(@, message)]

\* preCheck that counts the items with a path only
PreCheckCreate_pathsOnly(items, skipExisting, allTasks) ==
    IF ~skipExisting THEN [toCreate |-> Len(items), toSkip |-> 0, existing |-> {}]
    ELSE LET existing == CheckForDuplicates(SourcePaths(items), allTasks)
         IN  [toCreate |-> Len(SourcePaths(items)) - Cardinality(existing),
              toSkip |-> Cardinality(existing),
              existing |-> existing]

\* BulkTaskEngine.preCheck
PreCheckCreate(items, skipExisting, allTasks) ==
    IF ~skipExisting THEN [toCreate |-> Len(items), toSkip |-> 0, existing |-> {}]
    ELSE LET existing == CheckForDuplicates(SourcePaths(items), allTasks)
         IN  [toCreate |-> Len(items) - Cardinality(existing),
              toSkip |-> Cardinality(existing),
              existing |-> existing]

\* ------------------------------------------------------------------ bulk convert engine

\* preCheck that knows a task by its tag only, whatever the identification method
PreCheck_tagOnly(items, ds, st) ==
    {items[i].path : i \in {j \in 1 .. Len(items) :
        /\ FileAt(ds, items[j].path) # Missing
        /\ IsArray(FileAt(ds, items[j].path)["tags"])
        /\ Includes(FileAt(ds, items[j].path)["tags"].v, st.taskTag)}}

\* BulkConvertEngine.preCheck: alreadyTaskPaths
PreCheck(items, ds, st) ==
    {items[i].path : i \in {j \in 1 .. Len(items) :
        /\ items[j].path # << >>
        /\ FileAt(ds, items[j].path) # Missing
        /\ IsTaskFile(FileAt(ds, items[j].path), st)}}

\* BulkConvertEngine.preCheck: the counts it returns
PreCheckResult(items, ds, st) ==
    [toConvert |-> Len(items) - Cardinality(PreCheck(items, ds, st)),
     alreadyTasks |-> Cardinality(PreCheck(items, ds, st)),
     alreadyTaskPaths |-> PreCheck(items, ds, st)]

\* Step 1 of convertSingleNote: task identification
AddIdentification(frontmatter, st) ==
    IF st.taskIdentificationMethod = "property"
    THEN IF st.taskPropertyName # "" /\ frontmatter[st.taskPropertyName] = Undefined
         THEN [frontmatter EXCEPT ![st.taskPropertyName] = CoerceValue(st.taskPropertyValue)]
         ELSE frontmatter
    ELSE LET tags == IF IsArray(frontmatter["tags"]) THEN frontmatter["tags"].v ELSE << >>
         IN  [frontmatter EXCEPT !["tags"] =
                 List(IF Includes(tags, st.taskTag) THEN tags ELSE Append(tags, st.taskTag))]

SetIfUndefined(frontmatter, field, value) ==
    IF frontmatter[field] = Undefined THEN [frontmatter EXCEPT ![field] = value]
    ELSE frontmatter

\* Step 2 of convertSingleNote: defaults
ApplyDefaults(frontmatter, options) ==
    IF options.applyDefaults
    THEN SetIfUndefined(SetIfUndefined(SetIfUndefined(frontmatter,
             "status", Str("open")), "priority", Str("normal")), "dateCreated", Str("now"))
    ELSE frontmatter

\* Step 2.5 of convertSingleNote: link to the base file (only QueryPath is a file)
LinkToBase(frontmatter, options, st) ==
    IF options.linkToBase /\ options.baseFilePath # << >> /\ options.baseFilePath = QueryPath
    THEN LET link == GenerateMarkdownLink(options.baseFilePath, st.linkStyle)
         IN  IF frontmatter["projects"] = Undefined
             THEN [frontmatter EXCEPT !["projects"] = List(<<link>>)]
             ELSE IF IsArray(frontmatter["projects"]) /\ ~Includes(frontmatter["projects"].v, link)
             THEN [frontmatter EXCEPT !["projects"] = List(Append(@.v, link))]
             ELSE frontmatter
    ELSE frontmatter

\* the callback convertSingleNote gives to processFrontMatter
ConvertSingleNote(frontmatter, options, st) ==
    [LinkToBase(ApplyDefaults(AddIdentification(frontmatter, st), options), options, st)
        EXCEPT !["dateModified"] = Str("now")]

\* ------------------------------------------------------------------ batch calls

NewCreationResult == [created |-> 0, skipped |-> 0, failed |-> 0, errors |-> << >>,
                      createdPaths |-> << >>]

NewConvertResult == [converted |-> 0, skipped |-> 0, failed |-> 0, errors |-> << >>,
                     convertedPaths |-> << >>]

\* a batch call that has just been made
NewCall(engine, items, options, result) ==
    [engine |-> engine, items |-> items, options |-> options, i |-> 1, result |-> result,
     skip |-> {}, tasks0 |-> Len(tasks), docs0 |-> docs, wait |-> None]

\* the call ends: it returns its result, or an exception leaves it
Finish(c, outcome) ==
    /\ calls' = Append(calls, [engine |-> c.engine, items |-> c.items, options |-> c.options,
                               outcome |-> outcome, result |-> c.result, skip |-> c.skip,
                               tasks0 |-> c.tasks0, docs0 |-> c.docs0])
    /\ call' = Idle

\* the loop left after its first iteration, whatever items remain
Continue_returnsEarly(c) == Finish(c, "returned")

\* the end of one iteration of the loop over the items
Continue(c) ==
    IF c.i > Len(c.items) THEN Finish(c, "returned")
    ELSE call' = c /\ UNCHANGED calls

\* a later call of a session repeats the first, which returned without a failure
CanCall(engine, items, options) ==
    /\ call = Idle
    /\ Len(calls) < MaxRuns
    /\ calls # << >> => /\ calls[1].engine = engine
                        /\ calls[1].items = items
                        /\ calls[1].options = options
                        /\ calls[1].outcome = "returned"
                        /\ calls[1].result.failed = 0

Items == UNION {[1 .. n -> [path : ItemPaths]] : n \in 0 .. MaxItems}

CreationOptions == [skipExisting : BOOLEAN, useParentAsProject : BOOLEAN,
                    onProgress : {"returns", "throws"}]

ConvertOptions ==
    {o \in [applyDefaults : BOOLEAN, linkToBase : BOOLEAN,
            baseFilePath : {EmptyPath, QueryPath}, onProgress : {"returns", "throws"}] :
        ~o.linkToBase => o.baseFilePath = EmptyPath}

\* ------------------------------------------------------------------ bulk task engine

\* createTasks up to the loop; cacheManager.getAllTasks of the duplicate check
\* resolves with the tasks or rejects
CreateTasks(items, options) ==
    /\ CanCall("create", items, options)
    /\ LET c == NewCall("create", items, options, NewCreationResult)
       IN  IF items = << >> THEN Finish(c, "returned")
           ELSE IF ~options.skipExisting THEN call' = c /\ UNCHANGED calls
           ELSE IF options.onProgress = "throws" THEN Finish(c, "thrown")
           ELSE \E getAllTasks \in {"resolves", "rejects"} :
                   IF getAllTasks = "rejects" THEN Finish(c, "thrown")
                   ELSE /\ call' = [c EXCEPT !.skip = CheckForDuplicates(SourcePaths(items), tasks)]
                        /\ UNCHANGED calls
    /\ mutated' = None
    /\ fault' = None
    /\ UNCHANGED <<tasks, docs, settings>>

\* createTaskForItem up to taskService.createTask: taskData.projects
TaskData(item, options, ds, st) ==
    [projects |-> IF options.useParentAsProject /\ item.path # << >>
                  THEN <<GenerateProjectLink(item.path, ds, st.linkStyle)>>
                  ELSE << >>]

\* the skip test of the loop, on the current task records instead of the
\* result of the duplicate check made before the loop
Skips_live(c, sourcePath) ==
    c.options.skipExisting /\ sourcePath \in CheckForDuplicates(SourcePaths(c.items), tasks)

\* the skip test of the loop: duplicateCheck.existingTaskPaths.has(sourcePath)
Skips(c, sourcePath) == c.options.skipExisting /\ sourcePath \in c.skip

\* one iteration of the loop of createTasks; taskService.createTask returns a
\* file, returns no file, or throws
CreateItem ==
    /\ call.engine = "create"
    /\ LET c == [call EXCEPT !.i = @ + 1]
           item == call.items[call.i]
           sourcePath == item.path
       IN  IF call.options.onProgress = "throws"
           THEN Finish(call, "thrown") /\ fault' = None /\ UNCHANGED tasks
           ELSE IF Skips(call, sourcePath)
           THEN /\ Continue([c EXCEPT !.result.skipped = @ + 1])
                /\ fault' = None
                /\ UNCHANGED tasks
           ELSE \E createTask \in {"file", "no file", "throws"} :
                   CASE createTask = "file" ->
                          /\ tasks' = Append(tasks, TaskData(item, call.options, docs, settings))
                          /\ Continue([c EXCEPT !.result.created = @ + 1,
                                                !.result.createdPaths = Append(@, Len(tasks) + 1)])
                          /\ fault' = None
                     [] createTask = "no file" ->
                          /\ Continue([c EXCEPT !.result =
                                 RecordFailure(@, Message("Failed to create task for", sourcePath))])
                          /\ fault' = [i |-> call.i, path |-> sourcePath, kind |-> "no file"]
                          /\ UNCHANGED tasks
                     [] OTHER ->
                          /\ Continue([c EXCEPT !.result =
                                 RecordFailure(@, Message("Error for", sourcePath))])
                          /\ fault' = [i |-> call.i, path |-> sourcePath, kind |-> "throws"]
                          /\ UNCHANGED tasks
    /\ mutated' = None
    /\ UNCHANGED <<docs, settings>>

\* taskService.createTask called by another operation while createTasks is
\* running: a task that links to the document at `path`
TaskCreatedElsewhere(path) ==
    /\ call.engine = "create"
    /\ Len(tasks) <= MaxTasks
    /\ tasks' = Append(tasks, [projects |-> <<GenerateProjectLink(path, docs, settings.linkStyle)>>])
    /\ mutated' = None
    /\ fault' = None
    /\ UNCHANGED <<docs, settings, call, calls>>

\* ------------------------------------------------------------------ bulk convert engine, calls

\* convertNotes up to the loop; the task classifier of preCheck answers or throws
ConvertNotes(items, options) ==
    /\ CanCall("convert", items, options)
    /\ LET c == NewCall("convert", items, options, NewConvertResult)
       IN  IF items = << >> THEN Finish(c, "returned")
           ELSE IF options.onProgress = "throws" THEN Finish(c, "thrown")
           ELSE \E isTaskFile \in {"answers", "throws"} :
                   IF /\ isTaskFile = "throws"
                      /\ \E i \in 1 .. Len(items) : FileAt(docs, items[i].path) # Missing
                   THEN Finish(c, "thrown")
                   ELSE /\ call' = [c EXCEPT !.skip = PreCheck(items, docs, settings)]
                        /\ UNCHANGED calls
    /\ mutated' = None
    /\ fault' = None
    /\ UNCHANGED <<tasks, docs, settings>>

\* the loop of convertNotes is suspended at the await of waitForFreshTaskData
Awaits_never(c) == FALSE

Awaits(c) == c.wait # None

\* one iteration of the loop of convertNotes; processFrontMatter applies the
\* mutation or rejects, and waitForFreshTaskData resolves or rejects after it.
\* With `suspends` the iteration stops at the await of waitForFreshTaskData.
ConvertIteration(suspends) ==
    /\ call.engine = "convert"
    /\ ~Awaits(call)
    /\ LET c == [call EXCEPT !.i = @ + 1]
           sourcePath == call.items[call.i].path
           file == FileAt(docs, sourcePath)
           failure == [c EXCEPT !.result = RecordFailure(@, Message("Error for", sourcePath))]
           after == ConvertSingleNote(file, call.options, settings)
       IN  IF call.options.onProgress = "throws"
           THEN Finish(call, "thrown") /\ fault' = None /\ mutated' = None /\ UNCHANGED docs
           ELSE IF sourcePath \in call.skip
           THEN /\ Continue([c EXCEPT !.result.skipped = @ + 1])
                /\ fault' = None
                /\ mutated' = None
                /\ UNCHANGED docs
           ELSE IF file = Missing
           THEN /\ Continue([c EXCEPT !.result =
                       RecordFailure(@, Message("File not found", sourcePath))])
                /\ fault' = [i |-> call.i, path |-> sourcePath, kind |-> "missing"]
                /\ mutated' = None
                /\ UNCHANGED docs
           ELSE \E convertSingleNote \in {"resolves", "mutation rejects", "wait rejects"} :
                   CASE convertSingleNote = "resolves" /\ ~suspends ->
                          /\ docs' = [docs EXCEPT ![sourcePath] = after]
                          /\ mutated' = [path |-> sourcePath, before |-> file, after |-> after]
                          /\ Continue([c EXCEPT !.result.converted = @ + 1,
                                                !.result.convertedPaths = Append(@, sourcePath)])
                          /\ fault' = None
                     [] convertSingleNote = "mutation rejects" ->
                          /\ Continue(failure)
                          /\ fault' = [i |-> call.i, path |-> sourcePath, kind |-> "throws"]
                          /\ mutated' = None
                          /\ UNCHANGED docs
                     [] convertSingleNote # "mutation rejects" /\ suspends ->
                          /\ docs' = [docs EXCEPT ![sourcePath] = after]
                          /\ mutated' = [path |-> sourcePath, before |-> file, after |-> after]
                          /\ call' = [call EXCEPT !.wait = [path |-> sourcePath]]
                          /\ fault' = None
                          /\ UNCHANGED calls
                     [] OTHER ->
                          /\ docs' = [docs EXCEPT ![sourcePath] = after]
                          /\ mutated' = [path |-> sourcePath, before |-> file, after |-> after]
                          /\ Continue(failure)
                          /\ fault' = [i |-> call.i, path |-> sourcePath, kind |-> "throws"]
    /\ UNCHANGED <<tasks, settings>>

\* one iteration with the wait for the index inside it
ConvertItem == ConvertIteration(FALSE)

\* one iteration up to the await of waitForFreshTaskData
ConvertItemMutation == ConvertIteration(TRUE)

\* the wait for the index ends, and with it the iteration: convertSingleNote
\* resolves and the note is counted, or it rejects and the catch counts a failure
WaitForFreshTaskData ==
    /\ call.engine = "convert"
    /\ Awaits(call)
    /\ LET c == [call EXCEPT !.i = @ + 1, !.wait = None]
           sourcePath == call.items[call.i].path
       IN  \E waitForFreshTaskData \in {"resolves", "rejects"} :
               IF waitForFreshTaskData = "resolves"
               THEN /\ Continue([c EXCEPT !.result.converted = @ + 1,
                                          !.result.convertedPaths = Append(@, sourcePath)])
                    /\ fault' = None
               ELSE /\ Continue([c EXCEPT !.result =
                           RecordFailure(@, Message("Error for", sourcePath))])
                    /\ fault' = [i |-> call.i, path |-> sourcePath, kind |-> "throws"]
    /\ mutated' = None
    /\ UNCHANGED <<tasks, docs, settings>>

\* ------------------------------------------------------------------ the bulk engines

bvars == <<tasks, docs, settings, call, calls, mutated, fault>>

\* a task that links to the note N
LinkedTask == [projects |-> << <<"[", "[", "N", "]", "]">> >>]

BulkInit ==
    /\ tasks \in {<< >>, <<LinkedTask>>}
    /\ docs \in Vaults
    /\ settings \in Settings
    /\ call = Idle
    /\ calls = << >>
    /\ mutated = None
    /\ fault = None
    /\ answer = NoAnswer

\* the engines at rest, for the specifications of the watcher
BulkIdle ==
    /\ tasks = << >>
    /\ docs = [p \in DocPaths |-> Missing]
    /\ settings = CHOOSE st \in Settings : TRUE
    /\ call = Idle
    /\ calls = << >>
    /\ mutated = None
    /\ fault = None
    /\ answer = NoAnswer

\* a step of the engines
Bulk(A) == A /\ UNCHANGED <<wvars, burst, answer>>

BulkNext ==
    \/ \E items \in Items, options \in CreationOptions : Bulk(CreateTasks(items, options))
    \/ Bulk(CreateItem)
    \/ \E items \in Items, options \in ConvertOptions : Bulk(ConvertNotes(items, options))
    \/ Bulk(ConvertItem)

\* convertNotes with the await of waitForFreshTaskData as a step of its own
SyncNext ==
    \/ \E items \in Items, options \in ConvertOptions : Bulk(ConvertNotes(items, options))
    \/ Bulk(ConvertItemMutation)
    \/ Bulk(WaitForFreshTaskData)


\* ------------------------------------------------------------------ the watcher

WatcherInit ==
    /\ baseDef = [b \in BasePaths |-> IF b = "q1.base" THEN "notify" ELSE "quiet"]
    /\ initialized = FALSE
    /\ scanTimeout = "none"
    /\ evaluationDebounceTimer = None
    /\ timeouts = EmptyBag
    /\ periodicScan = FALSE
    /\ listeners = FALSE
    /\ monitoredBases = [b \in BasePaths |-> Absent]
    /\ pendingEvaluations = {}
    /\ procs = EmptyBag
    /\ destroyed = FALSE
    /\ dispatched = None
    /\ evaluated = None

WatcherNext ==
    \/ Initialize
    \/ Destroy
    \/ StartupFire
    \/ PeriodicFire
    \/ \E r \in BagToSet(procs) : ScanStep(r)
    \/ \E path \in NotePaths : TaskUpdated(path)
    \/ \E path \in NotePaths : MetadataChangedNote(path)
    \/ \E path \in NotePaths : FileDeletedNote(path)
    \/ \E path, oldPath \in NotePaths : FileRenamedNote(path, oldPath)
    \/ \E file \in BasePaths : MetadataChangedBase(file)
    \/ \E file \in BasePaths : FileDeletedBase(file)
    \/ \E oldPath, file \in BasePaths : FileRenamedBase(oldPath, file)
    \/ \E file \in BasePaths, content \in DefKinds : WriteDefinition(file, content)
    \/ DebounceFire
    \/ \E basePath \in BasePaths : TriggerEvaluation(basePath)
    \/ \E r \in BagToSet(procs) : PassResume(r)
    \/ \E basePath \in BasePaths, duration \in 1 .. MaxSnooze : SnoozeBase(basePath, duration)
    \/ \E basePath \in BasePaths, items \in SUBSET NotePaths : ShowNotificationFromView(basePath, items)
    \/ Tick

\* the watcher once the startup scan has registered the definitions in `defs`
Running(defs) ==
    /\ baseDef = [b \in BasePaths |-> IF b \in defs THEN "notify" ELSE "absent"]
    /\ initialized = TRUE
    /\ scanTimeout = "fired"
    /\ evaluationDebounceTimer = None
    /\ timeouts = EmptyBag
    /\ periodicScan = TRUE
    /\ listeners = TRUE
    /\ monitoredBases = [b \in BasePaths |-> IF b \in defs THEN MonitoredBase(b, 0, 0, {})
                                              ELSE Absent]
    /\ pendingEvaluations = {}
    /\ procs = EmptyBag
    /\ destroyed = FALSE
    /\ dispatched = None
    /\ evaluated = None

\* ------------------------------------------------------------------ bursts of change events

NoBurst == [events |-> 0, passes |-> 0, close |-> TRUE, far |-> TRUE, since |-> 0]

\* a step of the watcher that is not observed as part of a burst
Watcher(A) == A /\ UNCHANGED <<burst, bvars, answer>>

\* a change event: `close` while every event came less than the debounce delay
\* after the one before, `far` while every event came more than the delay after it
BurstEvent(path) ==
    /\ burst.events < MaxEvents
    /\ TaskUpdated(path)
    /\ burst' = [events |-> burst.events + 1,
                 passes |-> burst.passes,
                 close |-> burst.events = 0 \/ (burst.close /\ burst.since < DebounceTicks),
                 far |-> burst.events = 0 \/ (burst.far /\ burst.since > DebounceTicks),
                 since |-> 0]
    /\ UNCHANGED <<bvars, answer>>

\* the debounce callback: a pass starts when evaluatePendingBases gets past its
\* size check
BurstFire ==
    /\ DebounceFire
    /\ burst' = [burst EXCEPT !.passes = IF pendingEvaluations # {} THEN @ + 1 ELSE @]
    /\ UNCHANGED <<bvars, answer>>

BurstTick ==
    /\ Tick
    /\ burst' = [burst EXCEPT !.since = IF burst.events = 0 \/ @ > DebounceTicks
                                         THEN @ ELSE @ + 1]
    /\ UNCHANGED <<bvars, answer>>

\* ------------------------------------------------------------------ specifications

\* the lifecycle: initialize, destroy, the timers and what they start
LifeInit == WatcherInit /\ burst = NoBurst /\ BulkIdle

LifeNext ==
    \/ Watcher(Initialize)
    \/ Watcher(Destroy)
    \/ Watcher(StartupFire)
    \/ Watcher(PeriodicFire)
    \/ \E r \in BagToSet(procs) : Watcher(ScanStep(r))
    \/ \E path \in NotePaths : Watcher(TaskUpdated(path))
    \/ Watcher(DebounceFire)
    \/ \E r \in BagToSet(procs) : Watcher(PassResume(r))
    \/ Watcher(Tick)

SpecLife == LifeInit /\ [][LifeNext]_vars

\* one registered query, its evaluations and its snoozes
SnoozeInit == Running({"q1.base"}) /\ burst = NoBurst /\ BulkIdle

SnoozeNext ==
    \/ Watcher(PeriodicFire)
    \/ \E r \in BagToSet(procs) : Watcher(ScanStep(r))
    \/ \E path \in NotePaths : Watcher(TaskUpdated(path))
    \/ Watcher(DebounceFire)
    \/ \E basePath \in BaseFiles : Watcher(TriggerEvaluation(basePath))
    \/ \E r \in BagToSet(procs) : Watcher(PassResume(r))
    \/ \E basePath \in BaseFiles, duration \in 1 .. MaxSnooze : Watcher(SnoozeBase(basePath, duration))
    \/ \E basePath \in BaseFiles, items \in SUBSET NotePaths :
          Watcher(ShowNotificationFromView(basePath, items))
    \/ Watcher(Tick)

SpecSnooze == SnoozeInit /\ [][SnoozeNext]_vars

\* two registered queries, their evaluation passes and their re-registration
EvalInit == Running(BasePaths) /\ burst = NoBurst /\ BulkIdle

EvalNext ==
    \/ \E r \in BagToSet(procs) : Watcher(ScanStep(r))
    \/ \E path \in NotePaths : Watcher(TaskUpdated(path))
    \/ \E file \in BasePaths : Watcher(MetadataChangedBase(file))
    \/ Watcher(DebounceFire)
    \/ \E r \in BagToSet(procs) : Watcher(PassResume(r))
    \/ Watcher(Tick)

SpecEval == EvalInit /\ [][EvalNext]_vars

\* change events and the debounce timer, with one or two registered queries of
\* which the second may be snoozed
BurstInit ==
    /\ \E defs \in {{"q1.base"}, BasePaths} : Running(defs)
    /\ burst = NoBurst
    /\ BulkIdle

BurstNext ==
    \/ \E path \in NotePaths : BurstEvent(path)
    \/ BurstFire
    \/ \E r \in BagToSet(procs) : Watcher(PassResume(r))
    \/ \E duration \in 1 .. MaxSnooze : Watcher(SnoozeBase("q2.base", duration))
    \/ BurstTick

SpecBurst == BurstInit /\ [][BurstNext]_vars

\* one registered definition, its changes and its deletion with the listeners
\* subscribed, and the periodic rescan
RegisterInit == Running({"q1.base"}) /\ burst = NoBurst /\ BulkIdle

RegisterNext ==
    \/ \E file \in BasePaths, content \in DefKinds : Watcher(DefinitionChanged(file, content))
    \/ \E file \in BasePaths : Watcher(FileDeletedBase(file))
    \/ Watcher(PeriodicFire)
    \/ \E r \in BagToSet(procs) : Watcher(ScanStep(r))
    \/ \E r \in BagToSet(procs) : Watcher(PassResume(r))

SpecRegister == RegisterInit /\ [][RegisterNext]_vars

\* change events while passes are in flight: the debounce timer fires when its
\* delay has passed, time passes, and every awaited evaluation resolves
FairBurst ==
    /\ SpecBurst
    /\ WF_vars(BurstFire)
    /\ WF_vars(BurstTick)
    /\ WF_vars(\E r \in BagToSet(procs) : Watcher(PassResume(r)))

\* two registered definitions that are rewritten, well-formed or not, with the
\* listeners subscribed, and the periodic rescan
ParseNext ==
    \/ \E file \in BasePaths, content \in {"broken", "notify"} :
          Watcher(DefinitionChanged(file, content))
    \/ Watcher(PeriodicFire)
    \/ \E r \in BagToSet(procs) : Watcher(ScanStep(r))
    \/ \E r \in BagToSet(procs) : Watcher(PassResume(r))

SpecParse == EvalInit /\ [][ParseNext]_vars

\* ------------------------------------------------------------------ properties of the watcher

\* C1: with a registered query that is not snoozed, change events that each
\* come less than the debounce delay after the one before start exactly one
\* evaluation pass (none while the timer is still armed), and change events
\* that each come more than the delay after the one before start one pass each
\* (the last one once its timer has fired).
C1_DebounceCoalescing ==
    burst.events > 0 =>
        /\ burst.close =>
              burst.passes = IF evaluationDebounceTimer = None THEN 1 ELSE 0
        /\ burst.far =>
              burst.passes = IF evaluationDebounceTimer = None THEN burst.events
                             ELSE burst.events - 1

\* C1 witness: a burst of MaxEvents close events is over and has started one pass
C1_BurstCoalesced ==
    /\ burst.events = MaxEvents
    /\ burst.close
    /\ ~burst.far
    /\ evaluationDebounceTimer = None
    /\ burst.passes = 1

\* C2: no notification is dispatched for a registered query while it is snoozed
\* (snoozedUntil lies in the future).
C2_NoDispatchWhileSnoozed ==
    dispatched.kind = "notification" =>
        \/ monitoredBases[dispatched.path] = Absent
        \/ monitoredBases[dispatched.path].snoozedUntil = 0

\* C3: once destroy() has returned, none of the watcher's timers is armed: not
\* the startup delay, not the debounce timer, not the periodic rescan.
C3_NoTimerAfterDestroy ==
    destroyed =>
        /\ scanTimeout # "armed"
        /\ evaluationDebounceTimer = None
        /\ ~periodicScan

\* C5: when an evaluation of a registered query completes without error, the
\* registry's cachedPaths for it are exactly the paths of the result and
\* lastResultCount is their number, also for an empty result.
C5_CacheEqualsResult ==
    (/\ evaluated.kind = "evaluation"
     /\ ~evaluated.out.failed
     /\ monitoredBases[evaluated.path] # Absent) =>
        /\ monitoredBases[evaluated.path].cachedPaths = evaluated.out.paths
        /\ monitoredBases[evaluated.path].lastResultCount = Cardinality(evaluated.out.paths)

\* C9: a step in which the evaluation of a query fails leaves the registry's
\* cachedPaths and lastResultCount of that query as they were.
C9_FailureKeepsCache ==
    [][(/\ evaluated'.kind = "evaluation"
        /\ evaluated'.out.failed
        /\ monitoredBases[evaluated'.path] # Absent
        /\ monitoredBases'[evaluated'.path] # Absent) =>
           /\ monitoredBases'[evaluated'.path].cachedPaths =
                 monitoredBases[evaluated'.path].cachedPaths
           /\ monitoredBases'[evaluated'.path].lastResultCount =
                 monitoredBases[evaluated'.path].lastResultCount]_vars

\* C18: in a step in which no time passes, the snoozedUntil of a query that is
\* registered before and after the step does not decrease.
C18_SnoozeNeverShortened ==
    [][~Tick =>
          \A b \in BasePaths :
              (monitoredBases[b] # Absent /\ monitoredBases'[b] # Absent) =>
                  monitoredBases'[b].snoozedUntil >= monitoredBases[b].snoozedUntil]_vars

\* C19: a step in which the evaluation of a query returns a result set opens
\* one notification with exactly the paths of the result when there are any and
\* none when there are none; when the cached set was empty and the result
\* holds 2 paths, the cached set of the query holds 2 paths after the step.
C19_OnePayloadPerResult ==
    [][(evaluated'.kind = "evaluation" /\ evaluated'.out.kind # "throws") =>
          /\ IF evaluated'.out.paths # {}
             THEN dispatched'.kind = "notification" /\ dispatched'.items = evaluated'.out.paths
             ELSE dispatched' = None
          /\ (/\ monitoredBases[evaluated'.path] # Absent
              /\ monitoredBases[evaluated'.path].cachedPaths = {}
              /\ monitoredBases'[evaluated'.path] # Absent
              /\ Cardinality(evaluated'.out.paths) = 2) =>
                 Cardinality(monitoredBases'[evaluated'.path].cachedPaths) = 2]_vars

\* a registration check of definition d is in flight, by itself or in a scan
InFlight(d) ==
    \E r \in BagToSet(procs) :
        r.kind = "scan" /\ \E i \in 1 .. Len(r.todo) : r.todo[i] = d

\* C20: with every change and deletion of a definition delivered to the
\* listeners, a definition that is deleted or has no notify: true, and for which
\* no registration check is in flight, is not in the registry.
C20_RemovedStaysRemoved ==
    \A d \in BasePaths :
        (baseDef[d] # "notify" /\ ~InFlight(d)) => monitoredBases[d] = Absent

\* the evaluation passes that have started and not ended
Passes == Copies({r \in BagToSet(procs) : r.kind = "pass"}, procs)

\* C21: at most one evaluation pass is in progress at any time, whichever of the
\* debounce timer, the periodic rescan and triggerEvaluation started it.
C21_OnePassAtATime == Passes <= 1

\* C22: once destroy() has returned, no event listener is subscribed and the
\* registry is empty, also when destroy() was called while the startup scan
\* was running.
C22_NothingLeftAfterDestroy ==
    destroyed =>
        /\ ~listeners
        /\ \A b \in BasePaths : monitoredBases[b] = Absent

\* pass r has query q still to evaluate
Holds(r, q) == r.kind = "pass" /\ \E i \in 1 .. Len(r.todo) : r.todo[i] = q

\* the step starts a pass that has query q to evaluate
StartsPassWith(q) ==
    \E r \in BagToSet(procs') : Holds(r, q) /\ CopiesIn(r, procs') > CopiesIn(r, procs)

\* q1.base is marked pending while a pass is in flight that does not have it
\* to evaluate (any more)
MarkedDuringPass ==
    /\ "q1.base" \in pendingEvaluations
    /\ Passes >= 1
    /\ \A r \in BagToSet(procs) : ~Holds(r, "q1.base")

\* C23: a step that takes anything out of the pending set empties it, evaluates
\* nothing, and starts a pass that has every registered, unsnoozed query of the
\* set to evaluate; and a query marked pending while a pass is in flight that
\* does not have it to evaluate is evaluated later on.
C23_MarksNotLost ==
    /\ [][~(pendingEvaluations \subseteq pendingEvaluations') =>
             /\ pendingEvaluations' = {}
             /\ evaluated' = None
             /\ \A q \in pendingEvaluations :
                    (monitoredBases[q] # Absent /\ monitoredBases[q].snoozedUntil <= 0) =>
                        StartsPassWith(q)]_vars
    /\ MarkedDuringPass ~> (evaluated.kind = "evaluation" /\ evaluated.path = "q1.base")

\* C23 witness: q1.base was marked while a pass was evaluating q2.base, a later
\* pass has it to evaluate and the pending set is empty
C23_LaterPassHoldsMark ==
    /\ pendingEvaluations = {}
    /\ burst.passes = 2
    /\ \E r \in BagToSet(procs) : Holds(r, "q1.base")
    /\ \E r \in BagToSet(procs) : r.kind = "pass" /\ Head(r.todo) = "q2.base"

\* C24: at most one debounce timer is armed in the host, the one whose handle
\* the watcher holds; a change event leaves exactly one timer armed, with the
\* full debounce delay ahead of it, and leaves the periodic rescan as it is.
C24_OneDebounceTimer ==
    /\ [](/\ BagCardinality(timeouts) <= 1
          /\ timeouts = IF evaluationDebounceTimer = None THEN EmptyBag
                        ELSE SetToBag({evaluationDebounceTimer}))
    /\ [][(\E path \in NotePaths : TaskUpdated(path)) =>
             /\ timeouts' = SetToBag({[kind |-> "timer", in |-> DebounceTicks]})
             /\ periodicScan' = periodicScan]_vars

\* C24 witness: MaxEvents change events, each less than the debounce delay after
\* the one before, and the last of them has just re-armed the timer
C24_RearmedTwice ==
    /\ burst.events = MaxEvents
    /\ burst.close
    /\ burst.passes = 0
    /\ burst.since = 0
    /\ evaluationDebounceTimer # None
    /\ timeouts = SetToBag({evaluationDebounceTimer})
    /\ periodicScan

\* C25: a change event for `path` leaves pending every registered query whose
\* cachedPaths holds path, snoozed or not, and every registered query that is
\* not snoozed; a snoozed query whose cachedPaths does not hold path, and a
\* query that is not registered, is pending after the step only if it was before.
C25_MarksByCacheOrSnooze ==
    [][\A path \in NotePaths :
          TaskUpdated(path) =>
              \A b \in BasePaths :
                  IF /\ monitoredBases[b] # Absent
                     /\ \/ path \in monitoredBases[b].cachedPaths
                        \/ monitoredBases[b].snoozedUntil <= 0
                  THEN b \in pendingEvaluations'
                  ELSE b \in pendingEvaluations' <=> b \in pendingEvaluations]_vars

\* C25 witness: change events and no pass yet; q1.base is pending and q2.base,
\* snoozed for all of them, is not
C25_SnoozedNotMarked ==
    /\ burst.events >= 1
    /\ burst.passes = 0
    /\ monitoredBases["q2.base"] # Absent
    /\ monitoredBases["q2.base"].snoozedUntil > 0
    /\ pendingEvaluations = {"q1.base"}

\* C30: when a registration check reads a definition that does not parse, the
\* definition is not in the registry after the step, registered before or not,
\* and a scan goes on with its next file.
C30_ParseFailureUnregisters ==
    [][\A r \in BagToSet(procs) :
          (/\ ScanStep(r)
           /\ r.seen = "broken"
           /\ baseDef[Head(r.todo)] = "broken") =>
              /\ monitoredBases'[Head(r.todo)] = Absent
              /\ Tail(r.todo) # << >> =>
                    \E n \in BagToSet(procs') :
                        n.kind = "scan" /\ n.todo = Tail(r.todo) /\ n.then = r.then]_vars

\* C30 witness: q1.base, registered at the start, does not parse any more, its
\* check has run in a scan that went on to q2.base, and it is not registered
C30_BrokenRemoved ==
    /\ baseDef["q1.base"] = "broken"
    /\ monitoredBases["q1.base"] = Absent
    /\ \E r \in BagToSet(procs) : r.kind = "scan" /\ r.then = "periodic" /\ r.todo = <<"q2.base">>

\* C36: whenever queries are pending between two steps of the watcher, the
\* debounce timer is armed in the host and is due one debounce delay after the
\* last change event; the step that takes the pending queries is the callback
\* of that timer when it is due, and it starts a pass with every one of them
\* that is not snoozed; and pending queries are always taken by that step
\* later on.
C36_PendingIsScheduled ==
    /\ [](pendingEvaluations # {} =>
            /\ evaluationDebounceTimer # None
            /\ BagIn(evaluationDebounceTimer, timeouts)
            /\ evaluationDebounceTimer.in + burst.since = DebounceTicks)
    /\ [][~(pendingEvaluations \subseteq pendingEvaluations') =>
            /\ evaluationDebounceTimer.in = 0
            /\ burst.since = DebounceTicks
            /\ pendingEvaluations' = {}
            /\ \A q \in pendingEvaluations :
                  StartsPassWith(q) \/ monitoredBases[q].snoozedUntil > 0]_vars
    /\ (pendingEvaluations # {}) ~> (pendingEvaluations = {})

\* C36 witness: both queries are pending, the second snoozed since it was
\* marked, and the timer is due one debounce delay after the last event
C36_DueAfterLastEvent ==
    /\ pendingEvaluations = BasePaths
    /\ monitoredBases["q2.base"].snoozedUntil > 0
    /\ evaluationDebounceTimer # None
    /\ evaluationDebounceTimer.in = 0
    /\ burst.since = DebounceTicks
    /\ burst.events > 1

\* one registered definition that is evaluated, snoozed, rewritten and renamed
RenameNext ==
    \/ \E oldPath \in BasePaths, file \in BasePaths : Watcher(FileRenamedBase(oldPath, file))
    \/ \E file \in BasePaths : Watcher(DefinitionChanged(file, "notify"))
    \/ \E r \in BagToSet(procs) : Watcher(ScanStep(r))
    \/ \E basePath \in BasePaths : Watcher(TriggerEvaluation(basePath))
    \/ \E r \in BagToSet(procs) : Watcher(PassResume(r))
    \/ \E basePath \in BasePaths, duration \in 1 .. MaxSnooze :
          Watcher(SnoozeBase(basePath, duration))

SpecRename == RegisterInit /\ [][RenameNext]_vars

\* entry `after` has the snooze, the cached paths and the result count of `before`
SameState(before, after) ==
    /\ after.snoozedUntil = before.snoozedUntil
    /\ after.cachedPaths = before.cachedPaths
    /\ after.lastResultCount = before.lastResultCount

\* C39: a check that registers a definition that is registered already leaves
\* the entry's snoozedUntil, cachedPaths and lastResultCount as they were; and
\* when the file of a registered definition is renamed, the registry has no
\* entry under the old path and has under the new path an entry with the new
\* path and the same snoozedUntil, cachedPaths and lastResultCount.
C39_StateSurvives ==
    [][/\ \A r \in BagToSet(procs) :
            (/\ r.kind = "scan"
             /\ ScanStep(r)
             /\ monitoredBases[Head(r.todo)] # Absent
             /\ monitoredBases'[Head(r.todo)] # Absent) =>
                /\ SameState(monitoredBases[Head(r.todo)], monitoredBases'[Head(r.todo)])
                /\ monitoredBases'[Head(r.todo)].path = Head(r.todo)
       /\ \A oldPath \in BasePaths, file \in BasePaths :
            (/\ baseDef[oldPath] # "absent" /\ baseDef'[oldPath] = "absent"
             /\ baseDef[file] = "absent" /\ baseDef'[file] # "absent"
             /\ monitoredBases[oldPath] # Absent) =>
                /\ monitoredBases'[oldPath] = Absent
                /\ monitoredBases'[file] # Absent
                /\ monitoredBases'[file].path = file
                /\ SameState(monitoredBases[oldPath], monitoredBases'[file])]_vars

\* C39 witness: the definition registered as q1.base is registered as q2.base
\* only, snoozed and with cached results
C39_RenamedWithState ==
    /\ monitoredBases["q1.base"] = Absent
    /\ monitoredBases["q2.base"] # Absent
    /\ monitoredBases["q2.base"].path = "q2.base"
    /\ monitoredBases["q2.base"].snoozedUntil > 0
    /\ monitoredBases["q2.base"].cachedPaths # {}
    /\ monitoredBases["q2.base"].lastResultCount > 0

\* views that push their results to the watcher: definitions written before the
\* watcher has seen them, snoozes, and passes in flight
ViewNext ==
    \/ \E file \in BasePaths : Watcher(WriteDefinition(file, "notify"))
    \/ \E basePath \in BaseFiles, items \in SUBSET NotePaths :
          Watcher(ShowNotificationFromView(basePath, items))
    \/ \E basePath \in BaseFiles, duration \in 1 .. MaxSnooze :
          Watcher(SnoozeBase(basePath, duration))
    \/ \E basePath \in BaseFiles : Watcher(TriggerEvaluation(basePath))
    \/ \E r \in BagToSet(procs) : Watcher(PassResume(r))
    \/ Watcher(Tick)

SpecView == RegisterInit /\ [][ViewNext]_vars

\* C40: showNotificationFromView with items and a query that is not snoozed
\* opens one notification, for that query and those items, and leaves the
\* query registered with the item paths as cachedPaths, whether it was
\* registered before or not, and every other entry as it was; with no items
\* or a snoozed query it opens none and leaves the registry as it was.
C40_ViewNotifiesUnlessSnoozed ==
    [][\A basePath \in BasePaths, items \in SUBSET NotePaths :
          Watcher(ShowNotificationFromView(basePath, items)) =>
              IF /\ items # {}
                 /\ monitoredBases[basePath] # Absent => monitoredBases[basePath].snoozedUntil = 0
              THEN /\ dispatched' = Notification(basePath, items)
                   /\ monitoredBases'[basePath] # Absent
                   /\ monitoredBases'[basePath].path = basePath
                   /\ monitoredBases'[basePath].cachedPaths = items
                   /\ monitoredBases'[basePath].snoozedUntil = 0
                   /\ \A b \in BasePaths \ {basePath} : monitoredBases'[b] = monitoredBases[b]
              ELSE /\ dispatched' = None
                   /\ monitoredBases' = monitoredBases]_vars

\* C40 witness: a view of q2.base, which the watcher had not registered, has
\* opened a notification and q2.base is registered with the view's items
C40_UnknownRegistered ==
    /\ dispatched = Notification("q2.base", {"n1.md"})
    /\ monitoredBases["q2.base"] # Absent
    /\ monitoredBases["q2.base"].cachedPaths = {"n1.md"}
    /\ monitoredBases["q1.base"].snoozedUntil > 0
    /\ monitoredBases["q1.base"].cachedPaths = NotePaths

\* the batch engines: one call, or one call and its repetition
SpecBulkInit == WatcherInit /\ burst = NoBurst /\ BulkInit

SpecBulk == SpecBulkInit /\ [][BulkNext]_vars

\* ------------------------------------------------------------------ properties of the batch engines

\* the batch call the last step belongs to
Latest == IF call # Idle THEN call ELSE calls[Len(calls)]

\* result.created or result.converted
Done(result) == IF "created" \in DOMAIN result THEN result.created ELSE result.converted

\* C4: a frontmatter mutation of convertSingleNote leaves every field that was
\* present before, other than dateModified, with the value it had, and sets
\* dateModified to the current timestamp.
C4_NonClobber ==
    mutated # None =>
        /\ \A k \in FrontKeys \ {"dateModified"} :
              mutated.before[k] # Undefined => mutated.after[k] = mutated.before[k]
        /\ mutated.after["dateModified"] = Str("now")

\* no task that existed when call c was made links to one of its items
Unlinked(c) ==
    \A i \in 1 .. Len(c.items), t \in 1 .. c.tasks0 :
        ~TaskLinksToSource(tasks[t], c.items[i].path)

\* C6: when createTasks with skipExisting and useParentAsProject is called on
\* items none of which has a linked task and is then called again with the same
\* items, and the Task Service fails in neither call, the first call creates one
\* task per item and skips none, and the second creates none and skips every item.
C6_RerunSkipsAll ==
    (/\ Len(calls) = 2
     /\ calls[1].engine = "create"
     /\ calls[1].options.skipExisting
     /\ calls[1].options.useParentAsProject
     /\ calls[1].outcome = "returned" /\ calls[1].result.failed = 0
     /\ calls[2].outcome = "returned" /\ calls[2].result.failed = 0
     /\ Unlinked(calls[1])) =>
        /\ calls[1].result.created = Len(calls[1].items)
        /\ calls[1].result.skipped = 0
        /\ calls[2].result.created = 0
        /\ calls[2].result.skipped = Len(calls[1].items)

\* C7: every call of createTasks and convertNotes ends by returning its result,
\* never by an exception.
C7_NeverThrows ==
    \A k \in 1 .. Len(calls) : calls[k].outcome = "returned"

\* C8: a step in which an item fails (the Task Service or the mutation throws,
\* the Task Service returns no file, the document is missing) adds one to
\* failed and one error naming the item's path to errors, changes no other
\* count, and goes on to the next item or, after the last item, returns; a call
\* that returns has counted every item.
C8_FailureCountedOnce ==
    [][/\ fault' # None =>
            /\ Latest'.result.failed = call.result.failed + 1
            /\ Len(Latest'.result.errors) = Len(call.result.errors) + 1
            /\ SubSeq(Latest'.result.errors, 1, Len(call.result.errors)) = call.result.errors
            /\ Latest'.result.errors[Len(Latest'.result.errors)].path = call.items[call.i].path
            /\ Latest'.result.skipped = call.result.skipped
            /\ Done(Latest'.result) = Done(call.result)
            /\ IF call.i < Len(call.items)
               THEN call' # Idle /\ call'.i = call.i + 1 /\ calls' = calls
               ELSE call' = Idle /\ Latest'.outcome = "returned"
       /\ (calls' # calls /\ Latest'.outcome = "returned") =>
            Done(Latest'.result) + Latest'.result.skipped + Latest'.result.failed
                = Len(Latest'.items)]_vars

\* C8 witness: a call returned whose first item failed and whose second item,
\* another one, was created or converted
C8_FailedThenDone ==
    \E k \in 1 .. Len(calls) :
        /\ calls[k].outcome = "returned"
        /\ Len(calls[k].items) = 2
        /\ calls[k].items[1] # calls[k].items[2]
        /\ calls[k].result.failed = 1
        /\ Len(calls[k].result.errors) = 1
        /\ calls[k].result.errors[1].path = calls[k].items[1].path
        /\ Done(calls[k].result) = 1

\* the task classifier took the document at `path` for a task when call c was made
TaskAtPreCheck(c, path) ==
    /\ FileAt(c.docs0, path) # Missing
    /\ IsTaskFile(FileAt(c.docs0, path), settings)

\* C10: convertNotes applies no mutation to a document that the task classifier
\* took for a task at pre-check, whatever the options, and a call that returns
\* has counted every such item in skipped.
C10_TasksNeverConverted ==
    /\ mutated # None => ~TaskAtPreCheck(Latest, mutated.path)
    /\ \A k \in 1 .. Len(calls) :
          (calls[k].engine = "convert" /\ calls[k].outcome = "returned") =>
              calls[k].result.skipped =
                  Cardinality({i \in 1 .. Len(calls[k].items) :
                                  TaskAtPreCheck(calls[k], calls[k].items[i].path)})

\* C10 witness: a conversion returned that skipped a task and converted a note
C10_SkippedAndConverted ==
    \E k \in 1 .. Len(calls) :
        /\ calls[k].engine = "convert"
        /\ calls[k].outcome = "returned"
        /\ calls[k].result.skipped >= 1
        /\ calls[k].result.converted >= 1
        /\ \E i \in 1 .. Len(calls[k].items) : TaskAtPreCheck(calls[k], calls[k].items[i].path)

\* every item of call c had a document when the call was made
AllExist(c) == \A i \in 1 .. Len(c.items) : FileAt(c.docs0, c.items[i].path) # Missing

\* C11: a conversion whose items all have a document and in which no mutation
\* failed returns converted = toConvert, skipped = alreadyTasks and failed = 0,
\* for the counts preCheck gives on the same items and the documents as they
\* were when the call was made.
C11_CountsMatchPreCheck ==
    \A k \in 1 .. Len(calls) :
        (/\ calls[k].engine = "convert"
         /\ calls[k].outcome = "returned"
         /\ AllExist(calls[k])
         /\ calls[k].result.errors = << >>) =>
            LET preCheck == PreCheckResult(calls[k].items, calls[k].docs0, settings)
            IN  /\ calls[k].result.converted = preCheck.toConvert
                /\ calls[k].result.skipped = preCheck.alreadyTasks
                /\ calls[k].result.failed = 0

\* the items of a call that have been created, converted, skipped or failed
Counted(result) == Done(result) + result.skipped + result.failed

\* C12: every iteration of the loop of createTasks and convertNotes finds the
\* items before its own all counted and works on its own item only: a throw of
\* onProgress, which is called first, leaves the iteration with nothing of the
\* item done; otherwise the item is counted, at most one task is added, only
\* the item's document is changed, and the loop goes on to the next index or
\* returns after the last.
C12_OneItemAtATime ==
    [][(call # Idle /\ (call' # call \/ calls' # calls)) =>
          LET item == call.items[call.i]
          IN  /\ Counted(call.result) = call.i - 1
              /\ \/ /\ call' = Idle
                     /\ Latest'.outcome = "thrown"
                     /\ Latest'.result = call.result
                     /\ tasks' = tasks
                     /\ docs' = docs
                     /\ mutated' = None
                  \/ /\ Counted(Latest'.result) = call.i
                     /\ IF call.i < Len(call.items)
                        THEN call' # Idle /\ call'.i = call.i + 1 /\ calls' = calls
                        ELSE call' = Idle /\ Latest'.outcome = "returned"
                     /\ tasks' = tasks \/ (Len(tasks') = Len(tasks) + 1 /\ SubSeq(tasks', 1, Len(tasks)) = tasks)
                     /\ mutated' # None => mutated'.path = item.path
                     /\ \A p \in DocPaths \ {item.path} : docs'[p] = docs[p]
                     /\ call.engine = "convert" =>
                           Latest'.result.convertedPaths \in
                               {call.result.convertedPaths, Append(call.result.convertedPaths, item.path)}]_vars

\* C12 witness: a conversion of two different documents returned with both
\* converted, in the order of the items
C12_ConvertedInOrder ==
    \E k \in 1 .. Len(calls) :
        /\ calls[k].engine = "convert"
        /\ calls[k].outcome = "returned"
        /\ Len(calls[k].items) = 2
        /\ calls[k].items[1] # calls[k].items[2]
        /\ calls[k].result.convertedPaths = <<calls[k].items[1].path, calls[k].items[2].path>>

\* C28: when convertNotes has returned, every path of its convertedPaths names
\* a document that the task classifier takes for a task.
C28_ConvertedAreTasks ==
    \A n \in 1 .. Len(calls) :
        (calls[n].engine = "convert" /\ calls[n].outcome = "returned") =>
            \A i \in 1 .. Len(calls[n].result.convertedPaths) :
                IsTaskFile(FileAt(docs, calls[n].result.convertedPaths[i]), settings)

\* C29: a createTasks call that returned has skipped = toSkip and
\* created + failed = toCreate, for the counts preCheck gives on the same items,
\* the same skipExisting and the task records as they were when the call was made.
C29_PreCheckPredictsCreate ==
    \A n \in 1 .. Len(calls) :
        (calls[n].engine = "create" /\ calls[n].outcome = "returned") =>
            LET preCheck == PreCheckCreate(calls[n].items, calls[n].options.skipExisting,
                                           SubSeq(tasks, 1, calls[n].tasks0))
            IN  /\ calls[n].result.skipped = preCheck.toSkip
                /\ calls[n].result.created + calls[n].result.failed = preCheck.toCreate

\* the tag values a tags property holds: the members of a list, or the one string
TagValues(value) ==
    IF IsArray(value) THEN {value.v[i] : i \in 1 .. Len(value.v)}
    ELSE IF value.t = "string" THEN {value.v}
    ELSE {}

\* C31: after a mutation of convertSingleNote under the tag strategy the tags
\* property is a list in which the task tag occurs exactly once and every tag
\* value present before is still present; under the property strategy the
\* identification property has the configured value, "true" and "false" as
\* booleans, when it was absent and the value it had otherwise.
C31_MarkerOnlyIfAbsent ==
    mutated # None =>
        IF settings.taskIdentificationMethod = "tag"
        THEN /\ IsArray(mutated.after["tags"])
             /\ Cardinality({i \in 1 .. Len(mutated.after["tags"].v) :
                                mutated.after["tags"].v[i] = settings.taskTag}) = 1
             /\ TagValues(mutated.before["tags"]) \subseteq TagValues(mutated.after["tags"])
        ELSE mutated.after[settings.taskPropertyName] =
                 IF mutated.before[settings.taskPropertyName] = Undefined
                 THEN CoerceValue(settings.taskPropertyValue)
                 ELSE mutated.before[settings.taskPropertyName]

\* C32: after a mutation of convertSingleNote with linkToBase set and a base
\* file path given, the projects of the document are a list that holds the link
\* to the base file exactly once.
C32_LinkedExactlyOnce ==
    (/\ mutated # None
     /\ Latest.options.linkToBase
     /\ Latest.options.baseFilePath # EmptyPath) =>
        LET link == GenerateMarkdownLink(Latest.options.baseFilePath, settings.linkStyle)
            projects == mutated.after["projects"]
        IN  /\ IsArray(projects)
            /\ Cardinality({i \in 1 .. Len(projects.v) : projects.v[i] = link}) = 1

\* C35: the record createTasks hands to the Task Service for an item holds in
\* its projects exactly one reference, which links to the item's source
\* document, when useParentAsProject is set, and none when it is not set.
C35_OneLinkToSource ==
    [][(Bulk(CreateItem) /\ tasks' # tasks) =>
          LET item == call.items[call.i]
              taskData == tasks'[Len(tasks')]
          IN  IF call.options.useParentAsProject
              THEN /\ Len(taskData.projects) = 1
                   /\ TaskLinksToSource(taskData, item.path)
              ELSE taskData.projects = << >>]_vars

\* result.createdPaths of createTasks, result.convertedPaths of convertNotes
DonePaths(result) ==
    IF "created" \in DOMAIN result THEN result.createdPaths ELSE result.convertedPaths

\* C37: the result a call of createTasks or convertNotes returns has created
\* (converted) + skipped + failed equal to the number of items, as many
\* createdPaths (convertedPaths) as created (converted) and as many errors as
\* failed; while the loop runs the three counts add up to the number of items
\* it has been through, with the same two lengths.
C37_CountsAddUp ==
    /\ \A k \in 1 .. Len(calls) :
          calls[k].outcome = "returned" =>
              /\ Counted(calls[k].result) = Len(calls[k].items)
              /\ Len(DonePaths(calls[k].result)) = Done(calls[k].result)
              /\ Len(calls[k].result.errors) = calls[k].result.failed
    /\ call # Idle =>
          /\ Counted(call.result) = call.i - 1
          /\ Len(DonePaths(call.result)) = Done(call.result)
          /\ Len(call.result.errors) = call.result.failed

\* C37 witness: a call returned with one of its two items skipped and the other
\* failed
C37_SkippedAndFailed ==
    \E k \in 1 .. Len(calls) :
        /\ calls[k].outcome = "returned"
        /\ Len(calls[k].items) = 2
        /\ calls[k].result.skipped = 1
        /\ calls[k].result.failed = 1
        /\ Len(calls[k].result.errors) = 1

\* ------------------------------------------------------------------ calls of the reference functions

RECURSIVE Concat(_)
Concat(ss) == IF ss = << >> THEN << >> ELSE Head(ss) \o Concat(Tail(ss))

\* the strings made of at most n of the pieces
Words(pieces, n) == {Concat(w) : w \in UNION {[1 .. k -> pieces] : k \in 0 .. n}}

\* the lists of at most n members of S
Lists(S, n) == UNION {[1 .. k -> S] : k \in 0 .. n}

\* paths: "N", "n", "f/", ".md", ".MD" put together
PathPieces == {<<"N">>, <<"n">>, <<"f", "/">>, <<".", "m", "d">>, <<".", "M", "D">>}
Paths == Words(PathPieces, MaxPieces)

\* link targets: "N", " ", "(1)" put together
TargetPieces == {<<"N">>, <<" ">>, <<"(", "1", ")">>}
Targets == Words(TargetPieces, MaxPieces) \ {<< >>}

\* aliases and labels
Labels == {<<"L">>, <<" ", "l">>}

\* [[T]], [[T|Alias]], [Label](T)
Wiki(target) == <<"[", "[">> \o target \o <<"]", "]">>
Aliased(target, alias) == <<"[", "[">> \o target \o <<"|">> \o alias \o <<"]", "]">>
Markdown(label, target) == <<"[">> \o label \o <<"]", "(">> \o target \o <<")">>

\* the references extractPathFromLink is called with
References ==
    {<< >>} \cup Targets \cup {Wiki(t) : t \in Targets}
        \cup {Aliased(t, a) : t \in Targets, a \in Labels}
        \cup {Markdown(l, t) : l \in Labels, t \in Targets}

\* the targets of the entries of a task's projects, and the source paths
\* taskLinksToSource is called with
ProjectTargets == {<<"N">>, <<"f", "/", "N">>, <<"g", "/", "N">>, <<"f">>,
                   <<"f", "/", "N", ".", "M", "D">>, <<"f", "/", ".", "m", "d">>}
Projects ==
    {<< >>} \cup ProjectTargets \cup {Wiki(t) : t \in ProjectTargets}
        \cup {Markdown(<<"L">>, t) : t \in ProjectTargets}
Sources == {NotePath, FolderNotePath, <<"g", "/", "f", ".", "m", "d">>, <<"f">>, <<"n">>,
            <<"g", "/", "f", "/", ".", "m", "d">>}

\* a task without the property `projects`
Unlinking == [title |-> <<"t">>]

ProbeTasks == {Unlinking} \cup {[projects |-> ps] : ps \in Lists(Projects, MaxLinks)}

\* a call of a function that touches nothing; one call is observed
Pure(A) == answer = NoAnswer /\ A /\ UNCHANGED <<wvars, burst, bvars>>

\* normalizePath(path)
NormalizePathCall(path) ==
    answer' = [fn |-> "normalizePath", path |-> path, value |-> NormalizePath(path)]

\* extractPathFromLink(link)
ExtractPathFromLinkCall(link) ==
    answer' = [fn |-> "extractPathFromLink", link |-> link, value |-> ExtractPathFromLink(link)]

\* taskLinksToSource(task, sourcePath)
TaskLinksToSourceCall(task, sourcePath) ==
    answer' = [fn |-> "taskLinksToSource", task |-> task, sourcePath |-> sourcePath,
               value |-> TaskLinksToSource(task, sourcePath)]

ResolverInit == WatcherInit /\ burst = NoBurst /\ BulkIdle

ResolverNext ==
    \/ \E path \in Paths : Pure(NormalizePathCall(path))
    \/ \E link \in References : Pure(ExtractPathFromLinkCall(link))
    \/ \E task \in ProbeTasks, sourcePath \in Sources : Pure(TaskLinksToSourceCall(task, sourcePath))

SpecResolver == ResolverInit /\ [][ResolverNext]_vars

\* ------------------------------------------------------------------ properties of the reference functions

\* p and q differ in letter case or in one trailing ".md" only
SameButCaseAndExtension(p, q) ==
    \/ ToLowerCase(p) = ToLowerCase(q)
    \/ ToLowerCase(p) = ToLowerCase(q) \o <<".", "m", "d">>
    \/ ToLowerCase(q) = ToLowerCase(p) \o <<".", "m", "d">>

\* C13: what normalizePath returns is left as it is by normalizePath, and every
\* path that differs from the argument in letter case or in a trailing
\* document extension only is normalized to the same string.
C13_NormalizeIdempotent ==
    answer.fn = "normalizePath" =>
        /\ NormalizePath(answer.value) = answer.value
        /\ \A q \in Paths : SameButCaseAndExtension(answer.path, q) => NormalizePath(q) = answer.value

\* the reference has one of the three forms
Formed(link) ==
    \/ \E t \in Targets : link = Wiki(t)
    \/ \E t \in Targets, a \in Labels : link = Aliased(t, a)
    \/ \E l \in Labels, t \in Targets : link = Markdown(l, t)

\* C15: extractPathFromLink returns the trimmed target T for [[T]], [[T|Alias]]
\* and [Label](T), the reference itself, trimmed, for any other reference that
\* is not empty, and the empty string for the empty string.
C15_ExtractsTarget ==
    answer.fn = "extractPathFromLink" =>
        /\ \A t \in Targets : answer.link = Wiki(t) => answer.value = Trim(t)
        /\ \A t \in Targets, a \in Labels : answer.link = Aliased(t, a) => answer.value = Trim(t)
        /\ \A l \in Labels, t \in Targets : answer.link = Markdown(l, t) => answer.value = Trim(t)
        /\ ~Formed(answer.link) => answer.value = Trim(answer.link)
        /\ answer.link = << >> => answer.value = << >>

\* the last segment of a path, the path itself when that is empty
LastSegment(path) ==
    LET slashes == {i \in 1 .. Len(path) : path[i] = "/"}
        last == IF slashes = {} THEN path
                ELSE [i \in 1 .. Len(path) - Max(slashes) |-> path[Max(slashes) + i]]
    IN  IF last = << >> THEN path ELSE last

\* the matching rule for reference r and source path s
Linked(r, s) ==
    LET P == NormalizePath(ExtractPathFromLink(r))
        S == NormalizePath(s)
    IN  \/ P = S
        \/ LastSegment(P) = LastSegment(S)
        \/ EndsWith(P, <<"/">> \o LastSegment(S))
        \/ EndsWith(S, <<"/">> \o LastSegment(P))

\* the entries of a task's projects
Entries(task) ==
    IF "projects" \in DOMAIN task THEN {task.projects[i] : i \in 1 .. Len(task.projects)}
    ELSE {}

\* C16: taskLinksToSource is true exactly when some entry of the task's
\* projects satisfies the matching rule; a task with [[N]] is linked to f/N.md
\* and a task with [[f/N]] is linked to N.md.
C16_LinksBySegment ==
    answer.fn = "taskLinksToSource" =>
        /\ answer.value = (\E r \in Entries(answer.task) : Linked(r, answer.sourcePath))
        /\ (Wiki(<<"N">>) \in Entries(answer.task) /\ answer.sourcePath = FolderNotePath)
               => answer.value
        /\ (Wiki(<<"f", "/", "N">>) \in Entries(answer.task) /\ answer.sourcePath = NotePath)
               => answer.value

\* C16 witness: the task's one reference [[N]] was found to link to f/N.md
C16_BareLinksToFolder ==
    /\ answer.fn = "taskLinksToSource"
    /\ answer.task = [projects |-> <<Wiki(<<"N">>)>>]
    /\ answer.sourcePath = FolderNotePath
    /\ answer.value

EndsInSlash(path) == path # << >> /\ path[Len(path)] = "/"

\* the entries of the task's projects have the same normalized basename as the
\* source path
SameBasename(task, sourcePath) ==
    \E r \in Entries(task) :
        LastSegment(NormalizePath(ExtractPathFromLink(r))) = LastSegment(NormalizePath(sourcePath))

\* C38 as stated: when neither the source path nor the target of any entry
\* ends in "/", taskLinksToSource is true exactly when some entry has the
\* normalized basename of the source path.
C38_BasenamesOnly ==
    (/\ answer.fn = "taskLinksToSource"
     /\ ~EndsInSlash(answer.sourcePath)
     /\ \A r \in Entries(answer.task) : ~EndsInSlash(ExtractPathFromLink(r))) =>
        answer.value = SameBasename(answer.task, answer.sourcePath)

\* C38: when neither the normalized source path nor the normalized target of
\* any entry ends in "/", taskLinksToSource is true exactly when some entry has
\* the normalized basename of the source path: the three other comparisons add
\* no match, and documents of the same name in different folders are taken for
\* the same source.
C38_BasenamesOnlyNormalized ==
    (/\ answer.fn = "taskLinksToSource"
     /\ ~EndsInSlash(NormalizePath(answer.sourcePath))
     /\ \A r \in Entries(answer.task) : ~EndsInSlash(NormalizePath(ExtractPathFromLink(r)))) =>
        answer.value = SameBasename(answer.task, answer.sourcePath)

\* C38 witness: the reference [[g/N]] was found to link to f/N.md
C38_OtherFolderLinked ==
    /\ answer.fn = "taskLinksToSource"
    /\ answer.task = [projects |-> <<Wiki(<<"g", "/", "N">>)>>]
    /\ answer.sourcePath = FolderNotePath
    /\ answer.value

\* ------------------------------------------------------------------ calls of the duplicate detector

\* the task records the duplicate check finds: without projects, with none,
\* with [[N]], with [[f/N]] and a plain path
FoundTasks ==
    {Unlinking, [projects |-> << >>], [projects |-> <<Wiki(<<"N">>)>>],
     [projects |-> <<Wiki(<<"f", "/", "N">>), <<"g">>>>]}

\* the source paths the duplicate check is called with
CheckedPaths == {NotePath, FolderNotePath, <<"g", "/", "f", ".", "m", "d">>}

\* DuplicateDetector.checkForDuplicates(sourcePaths), getAllTasks resolving
CheckForDuplicatesCall(sourcePaths) ==
    answer' = [fn |-> "checkForDuplicates", sourcePaths |-> sourcePaths,
               value |-> [existingTaskPaths |-> CheckForDuplicates(sourcePaths, tasks),
                          sourceToTaskMap |-> SourceToTaskMap(sourcePaths, tasks)]]

\* BulkTaskEngine.preCheck(items, skipExisting), getAllTasks resolving
PreCheckCall(items, skipExisting) ==
    answer' = [fn |-> "preCheck", items |-> items, skipExisting |-> skipExisting,
               value |-> PreCheckCreate(items, skipExisting, tasks)]

DetectorInit ==
    /\ WatcherInit
    /\ burst = NoBurst
    /\ tasks \in Lists(FoundTasks, MaxTasks)
    /\ docs = [p \in DocPaths |-> Missing]
    /\ settings = CHOOSE st \in Settings : TRUE
    /\ call = Idle
    /\ calls = << >>
    /\ mutated = None
    /\ fault = None
    /\ answer = NoAnswer

DetectorNext ==
    \/ \E sourcePaths \in Lists(CheckedPaths, MaxItems) : Pure(CheckForDuplicatesCall(sourcePaths))
    \/ \E items \in Items, skipExisting \in BOOLEAN : Pure(PreCheckCall(items, skipExisting))

SpecDetector == DetectorInit /\ [][DetectorNext]_vars

\* ------------------------------------------------------------------ properties of the duplicate detector

\* C14: BulkTaskEngine.preCheck returns toCreate + toSkip = the number of items
\* with skipExisting, toCreate = the number of items and toSkip = 0 without,
\* and leaves the task records as they were.
C14_PreCheckAddsUp ==
    [][answer'.fn = "preCheck" =>
          /\ IF answer'.skipExisting
             THEN answer'.value.toCreate + answer'.value.toSkip = Len(answer'.items)
             ELSE answer'.value.toCreate = Len(answer'.items) /\ answer'.value.toSkip = 0
          /\ tasks' = tasks]_vars

\* C14 witness: a pre-check with skipExisting found an item with an empty path
\* and an item to skip
C14_SomeToSkip ==
    /\ answer.fn = "preCheck"
    /\ answer.skipExisting
    /\ \E i \in 1 .. Len(answer.items) : answer.items[i].path = EmptyPath
    /\ answer.value.toSkip = 1
    /\ answer.value.toCreate = 1

\* the places in `tasks` of the tasks with a reference that satisfies the
\* matching rule for source path p
Linking(p) == {t \in 1 .. Len(tasks) : \E r \in Entries(tasks[t]) : Linked(r, p)}

\* the members of a list
Range(list) == {list[i] : i \in 1 .. Len(list)}

\* C17: checkForDuplicates returns as existingTaskPaths exactly the source
\* paths some task links to, and maps each of them to the tasks that link to
\* it, each once and no other; no task it names is without projects.
C17_ExactlyTheLinked ==
    answer.fn = "checkForDuplicates" =>
        LET existing == answer.value.existingTaskPaths
            map == answer.value.sourceToTaskMap
        IN  /\ existing = {p \in Range(answer.sourcePaths) : Linking(p) # {}}
            /\ DOMAIN map = existing
            /\ \A p \in existing :
                  /\ Range(map[p]) = Linking(p)
                  /\ Len(map[p]) = Cardinality(Linking(p))
                  /\ \A t \in Range(map[p]) : Entries(tasks[t]) # {}

\* C17 witness: of two source paths one was found linked, by the second of
\* two tasks, the first being without projects
C17_OneOfTwoLinked ==
    /\ answer.fn = "checkForDuplicates"
    /\ Len(tasks) = 2
    /\ Entries(tasks[1]) = {}
    /\ Len(answer.sourcePaths) = 2
    /\ Cardinality(answer.value.existingTaskPaths) = 1
    /\ \E p \in answer.value.existingTaskPaths : answer.value.sourceToTaskMap[p] = <<2>>

\* ------------------------------------------------------------------ the fallback evaluator

\* A source filter is a sequence of pieces: the names, the punctuation and the
\* characters of a folder name.
Quotes == {"\"", "'"}

\* \s*: the first index from i on that holds no white space
RECURSIVE SkipSpace(_, _)
SkipSpace(s, i) == IF i <= Len(s) /\ s[i] = " " THEN SkipSpace(s, i + 1) ELSE i

\* /file\.inFolder\s*\(\s*["']([^"']+)["']\s*\)/ tried at index i
FolderMatchAt(s, i) ==
    LET open == SkipSpace(s, i + 1)
        quote == SkipSpace(s, open + 1)
        closing == {e \in quote + 1 .. Len(s) : s[e] \in Quotes}
        paren == SkipSpace(s, Min(closing) + 1)
    IN  IF /\ s[i] = "file.inFolder"
           /\ open <= Len(s) /\ s[open] = "("
           /\ quote <= Len(s) /\ s[quote] \in Quotes
           /\ closing # {} /\ Min(closing) > quote + 1
           /\ paren <= Len(s) /\ s[paren] = ")"
        THEN [matched |-> TRUE, group |-> SubSeq(s, quote + 1, Min(closing) - 1)]
        ELSE NoMatch

\* config.source.match(...): the leftmost match anywhere in the source
FolderMatch(source) ==
    LET at == {i \in 1 .. Len(source) : FolderMatchAt(source, i).matched}
    IN  IF at = {} THEN NoMatch ELSE FolderMatchAt(source, Min(at))

StartsWith(s, prefix) == Len(prefix) <= Len(s) /\ SubSeq(s, 1, Len(prefix)) = prefix

\* file.parent?.path: the path up to its last "/", "/" for a file of the root
ParentPath(path) ==
    LET slashes == IndicesOf(path, "/")
    IN  IF slashes = {} THEN <<"/">> ELSE SubSeq(path, 1, Max(slashes) - 1)

\* evaluateSourceFilter, as the paths of its items; `files` are the vault's
\* markdown files
EvaluateSourceFilter(source, files) ==
    LET folderMatch == FolderMatch(source)
    IN  IF source = << >> \/ ~folderMatch.matched THEN {}
        ELSE {file \in files : \/ StartsWith(file, folderMatch.group \o <<"/">>)
                               \/ ParentPath(file) = folderMatch.group}

\* evaluateWithTemporaryView once the definition is read and parsed to `source`
EvaluateWithTemporaryView(source, files) ==
    IF source = << >> THEN [kind |-> "null", failed |-> FALSE, paths |-> {}]
    ELSE [kind |-> "items", failed |-> FALSE, paths |-> EvaluateSourceFilter(source, files)]

\* file.inFolder("folder"), with or without white space inside the parentheses
InFolder(folder, space) ==
    <<"file.inFolder", "(">> \o space \o <<"\"">> \o folder \o <<"\"">> \o space \o <<")">>

FolderPredicates == {InFolder(folder, space) : folder \in {<<"f">>, <<"g">>},
                                               space \in {<< >>, <<" ">>}}

\* a predicate the fallback evaluator does not evaluate
HasTag == <<"file.hasTag", "(", "\"", "t", "\"", ")">>

Predicates == FolderPredicates \cup {HasTag}

\* the source filters: none, one predicate, a negated predicate, a conjunction
SourceFilters ==
    {<< >>} \cup Predicates \cup {<<"!">> \o p : p \in Predicates}
            \cup {p \o <<" ", "&&", " ">> \o q : p, q \in Predicates}

MarkdownFiles == {NotePath, FolderNotePath, <<"g", "/", "N", ".", "m", "d">>}

EvaluateWithTemporaryViewCall(source, files) ==
    answer' = [fn |-> "evaluateWithTemporaryView", source |-> source, files |-> files,
               value |-> EvaluateWithTemporaryView(source, files)]

FallbackNext ==
    \E source \in SourceFilters, files \in SUBSET MarkdownFiles :
        Pure(EvaluateWithTemporaryViewCall(source, files))

SpecFallback == ResolverInit /\ [][FallbackNext]_vars

\* C27: the fallback evaluation of a definition returns items only when the
\* source filter is one folder-membership predicate.
C27_OnlyFolderMembership ==
    (answer.fn = "evaluateWithTemporaryView" /\ answer.value.paths # {}) =>
        answer.source \in FolderPredicates

\* ------------------------------------------------------------------ createTasks and tasks created meanwhile

SnapshotNext ==
    \/ \E items \in Items, options \in CreationOptions : Bulk(CreateTasks(items, options))
    \/ Bulk(CreateItem)
    \/ \E path \in DocPaths : Bulk(TaskCreatedElsewhere(path))

SpecSnapshot == SpecBulkInit /\ [][SnapshotNext]_vars

\* the result of the running call after the step
ResultAfter == IF call' = Idle THEN calls'[Len(calls')].result ELSE call'.result

\* C26: an iteration of the loop of createTasks skips its item exactly when
\* skipExisting is set and the task records that existed when the call was made
\* hold one that links to the item's path, whatever tasks have been created
\* since, by this run or by another operation.
C26_SkipsFromSnapshot ==
    [][(CreateItem /\ call.options.onProgress # "throws") =>
          (ResultAfter.skipped = call.result.skipped + 1 <=>
               /\ call.options.skipExisting
               /\ call.items[call.i].path \in
                      CheckForDuplicates(SourcePaths(call.items),
                                         SubSeq(tasks, 1, call.tasks0)))]_vars

\* C26 witness: skipExisting, no task at the start, two items for the note N
\* with their tasks linked to it, and a third task linking to N created by
\* another operation: both items were created, none skipped
C26_CreatedDespiteNewTasks ==
    /\ calls # << >>
    /\ calls[1].outcome = "returned"
    /\ calls[1].options.skipExisting
    /\ calls[1].options.useParentAsProject
    /\ calls[1].items = <<[path |-> NotePath], [path |-> NotePath]>>
    /\ calls[1].tasks0 = 0
    /\ calls[1].result.created = 2
    /\ calls[1].result.skipped = 0
    /\ Len(tasks) = 3
    /\ \A i \in 1 .. 3 : TaskLinksToSource(tasks[i], NotePath)

\* ------------------------------------------------------------------ convertNotes and the index

SpecSync == SpecBulkInit /\ [][SyncNext]_vars

\* C33: when the host provides waitForFreshTaskData, convertNotes starts the
\* mutation of item i+1 only after the wait for the index that follows the
\* mutation of item i has ended: while the wait for an item is pending no
\* step writes a document and the loop stays at that item, and every step
\* that writes a document writes the item the loop is at and starts its wait.
C33_MutationAfterWait ==
    [][/\ (call # Idle /\ call.engine = "convert" /\ call.wait # None) =>
            /\ docs' = docs
            /\ mutated' = None
            /\ call' # Idle => call'.i = call.i + 1 /\ call'.wait = None
       /\ mutated' # None =>
            /\ call.wait = None
            /\ call'.wait = [path |-> call.items[call.i].path]
            /\ mutated'.path = call.items[call.i].path
            /\ call'.i = call.i]_vars

\* the second item of a call is written, after the wait for the first has ended
C33_SecondAfterFirstWait ==
    /\ call # Idle
    /\ call.engine = "convert"
    /\ call.i = 2
    /\ call.wait # None
    /\ mutated # None
    /\ call.result.converted = 1

\* ------------------------------------------------------------------ the title of a new task

Number(v) == [t |-> "number", v |-> v]

\* item.file
File(basename) == [t |-> "file", basename |-> basename]

\* a string that is not empty: what JavaScript takes for true in `if (s)`
Truthy(value) == value.t = "string" /\ value.v # << >>

UntitledTask == <<"Untitled task">>

\* extractTitle
ExtractTitle(item) ==
    IF Truthy(item.properties.title) THEN item.properties.title.v
    ELSE IF item.file # Undefined /\ item.file.basename # << >> THEN item.file.basename
    ELSE IF Truthy(item.name) THEN item.name.v
    ELSE IF Truthy(item.path) THEN StripMd(Basename(item.path.v))
    ELSE UntitledTask

\* the items extractTitle is called with
TitledItems ==
    [properties : [title : {Undefined, Str(<< >>), Str(<<"T">>), Number(7)}],
     file : {Undefined, File(<< >>), File(<<"B">>)},
     name : {Undefined, Str(<< >>), Str(<<"n">>)},
     path : {Undefined, Str(<< >>), Str(<<"N">>), Str(NotePath), Str(FolderNotePath),
             Str(<<"f", "/", ".", "M", "D">>), Str(<<"f", "/">>)}]

\* extractTitle(item)
ExtractTitleCall(item) ==
    answer' = [fn |-> "extractTitle", item |-> item, value |-> ExtractTitle(item)]

TitleNext == \E item \in TitledItems : Pure(ExtractTitleCall(item))

SpecTitle == ResolverInit /\ [][TitleNext]_vars

\* what an item offers for a title, in the order of their priority: the title
\* property, the display name, the name property, the basename of the path
\* without its extension
Offers(item) ==
    << IF item.properties.title.t = "string" THEN item.properties.title.v ELSE << >>,
       IF item.file # Undefined THEN item.file.basename ELSE << >>,
       IF item.name # Undefined THEN item.name.v ELSE << >>,
       IF item.path # Undefined THEN StripMd(PopSegment(item.path.v)) ELSE << >> >>

\* C34: the title of a new task is the first of the title property, the display
\* name, the name property and the basename of the path without its extension
\* that the item has, it is "Untitled task" when the item has none of them,
\* and it is never the empty string.
C34_TitleFirstAvailable ==
    answer.fn = "extractTitle" =>
        LET offers == Offers(answer.item)
            has == {k \in 1 .. 4 : offers[k] # << >>}
        IN  /\ answer.value # << >>
            /\ answer.value = IF has = {} THEN UntitledTask ELSE offers[Min(has)]

\* the whole model
Init == WatcherInit /\ burst = NoBurst /\ BulkInit

Next ==
    \/ Watcher(WatcherNext)
    \/ BulkNext
    \/ SyncNext
    \/ \E path \in DocPaths : Bulk(TaskCreatedElsewhere(path))
    \/ ResolverNext
    \/ DetectorNext
    \/ FallbackNext
    \/ TitleNext

Spec == Init /\ [][Next]_vars

====
